---------------------------- MODULE Spec2Model ----------------------------
(***************************************************************************)
(* Model of the trading core of the Crypto auto-trading program:           *)
(*   - TradingEngine (src/core/trading_engine.py): the trading cycle,      *)
(*     entry/exit evaluation and signal execution;                         *)
(*   - ConditionManager (src/conditions/base_condition.py): the signal     *)
(*     combiner and first-match exit evaluation;                           *)
(*   - PCSSystemCondition (src/conditions/exit_condition_factory.py): the  *)
(*     12-step take-profit / stop-loss ladder;                             *)
(*   - RiskManager (src/risk/risk_manager.py): the entry checks and the    *)
(*     daily counters;                                                     *)
(*   - PCBreakevenCondition and PCTExitCondition: the exit rules that      *)
(*     keep a state between calls;                                         *)
(*   - BaseExchangeAPI (src/api/base_api.py) and its two clients: the      *)
(*     call counter in front of the requests;                              *)
(*   - MACondition and MultiTimeframeMACondition: the moving-average       *)
(*     entry rules;                                                        *)
(*   - Signal and Position (src/core/models.py): the constructor checks;   *)
(*   - OrderbookWatchCondition, CandleStateCondition, TickBasedCondition   *)
(*     (src/conditions/entry): the entry rules with a memory;              *)
(*   - OrderbookExitCondition (src/conditions/exit/orderbook_exit.py);     *)
(*   - EventBus (src/core/event_system.py): publish, start, stop and the   *)
(*     bus thread.                                                         *)
(* Confidences are modelled in hundredths (0.9 -> 90), percentages and     *)
(* prices as integers.                                                     *)
(***************************************************************************)
EXTENDS Integers, Sequences, FiniteSets, TLC

VARIABLES
    \* ---- TradingEngine ----
    is_running,            \* self.is_running
    is_trading_enabled,    \* self.is_trading_enabled
    update_task,           \* self.update_task is a live task (set by start only)
    combination_mode,      \* self.combination_mode
    entry_conditions,      \* self.entry_conditions: sequence of [enabled]
    exit_conditions,       \* self.exit_conditions: sequence of [enabled]
    risk_manager,          \* self.risk_manager is set
    positions,             \* self.positions[exchange]: sequence of symbols
    market_data_cache,     \* self.market_data_cache has an entry for the exchange
    pc,                    \* position of the trading loop inside one cycle
    entry_signals,         \* local entry_signals of _run_trading_cycle
    exit_signals,          \* local exit_signals of _run_trading_cycle
    exit_idx,              \* positions already handled by the loop of _evaluate_exit_conditions
    exec_exit,             \* exit_signals argument of _execute_signals, not yet executed
    exec_entry,            \* entry_signals argument of _execute_signals, not yet executed
    orders,                \* orders sent to the connector in this cycle, in order
    entry_results,         \* what each entry condition's evaluate returned in this cycle
    condition_signals,     \* local condition_signals of _evaluate_entry_conditions
    combined,              \* signals handed to risk validation in this cycle
    signalled_before,      \* entry conditions that returned a signal in an earlier cycle
    md_fresh,              \* _collect_market_data stored new data in this cycle
    exit_returned,         \* signals returned by exit conditions' evaluate in this cycle
    last_order,            \* the last order of this cycle: <<>> or <<[kind, signal, outcome, emitted]>>
    \* ---- ConditionManager ----
    cm_entry_conditions,   \* ConditionManager.entry_conditions
    cm_exit_conditions,    \* ConditionManager.exit_conditions
    cm_combination_mode,   \* ConditionManager.combination_mode
    cm_inputs,             \* what each condition's evaluate returned in the last call
    cm_call,               \* the last evaluate_* call made since the configuration changed
    cm_result,             \* its return value: <<>> (None) or <<signal>>
    \* ---- PCSSystemCondition ----
    active_steps,          \* self.active_steps
    pcs_levels,            \* self.pcs_levels
    pcs_position,          \* the position argument of the last evaluate: <<>> or <<p>>
    pcs_called,            \* evaluate has been called
    tp_candidates,         \* local tp_candidates of the last evaluate
    sl_candidates,         \* local sl_candidates of the last evaluate
    pcs_result,            \* its return value: <<>> (None) or <<signal>>
    \* ---- RiskManager ----
    daily_max_trades,      \* self.daily_max_trades
    max_positions,         \* self.max_positions
    daily_trades,          \* self.daily_trades
    daily_loss,            \* self.daily_loss, in percent of the account balance
    last_reset_date,       \* self.last_reset_date (a day number)
    active_positions,      \* self.active_positions
    today,                 \* datetime.now().date() (a day number)
    rm_call,               \* the last call made on the RiskManager and the state it found
    rm_result,             \* what the last validate_entry_signal did: "true", "false", "raise"
    rm_checks,             \* the checks the last validate_entry_signal evaluated, in order
    \* ---- PCBreakevenCondition ----
    pc_touched,            \* self.pc_touched
    touch_price,           \* self.touch_price: <<>> (None) or <<price>>, in ticks
    pcb_call,              \* the last evaluate call: its arguments, the state it found, its return
    \* ---- PCTExitCondition ----
    is_activated,          \* self.is_activated
    highest_channel,       \* self.highest_channel: <<>> (None) or <<price>>
    lowest_channel,        \* self.lowest_channel: <<>> (None) or <<price>>
    trailing_stop_price,   \* self.trailing_stop_price: <<>> (None) or <<price * 100>>
    pct_call,              \* the last evaluate call: its arguments and its return
    \* ---- BaseExchangeAPI and its clients ----
    rl_client,             \* the class of the client object
    rl_clock,              \* time.time(), in ticks
    rate_limit_calls,      \* self.rate_limit_calls: the times of the counted calls
    issued,                \* how many requests went to the exchange at each tick
    rl_last,               \* the last _make_request: what it found and what it did
    \* ---- MACondition and MultiTimeframeMACondition ----
    ma_call,               \* the last evaluate call: the condition, its argument, its return
    \* ---- further objects, each with its fields and its last call in one record ----
    model_call,            \* Signal(...) or Position(...): the arguments and the outcome
    obw,                   \* an OrderbookWatchCondition
    candle,                \* a CandleStateCondition
    tick,                  \* a TickBasedCondition
    obexit,                \* an OrderbookExitCondition
    bus,                   \* an EventBus with its handlers
    loops                  \* the trading loops started on one engine

engineVars == <<is_running, is_trading_enabled, update_task, combination_mode,
                entry_conditions, exit_conditions, risk_manager, positions,
                market_data_cache, pc, entry_signals, exit_signals, exit_idx,
                exec_exit, exec_entry, orders, entry_results, condition_signals, combined,
                signalled_before, md_fresh, exit_returned, last_order>>
cmVars == <<cm_entry_conditions, cm_exit_conditions, cm_combination_mode,
            cm_inputs, cm_call, cm_result>>
pcsVars == <<active_steps, pcs_levels, pcs_position, pcs_called,
             tp_candidates, sl_candidates, pcs_result>>
rmVars == <<daily_max_trades, max_positions, daily_trades, daily_loss,
            last_reset_date, active_positions, today, rm_call, rm_result, rm_checks>>
pcbVars == <<pc_touched, touch_price, pcb_call>>
pctVars == <<is_activated, highest_channel, lowest_channel, trailing_stop_price,
             pct_call>>
rlVars == <<rl_client, rl_clock, rate_limit_calls, issued, rl_last>>
maVars == <<ma_call>>
extVars == <<model_call, obw, candle, tick, obexit, bus, loops>>
auxVars == <<pcbVars, pctVars, rlVars, maVars, extVars>>
\* Everything but the objects of extVars.
coreVars == <<engineVars, cmVars, pcsVars, rmVars, pcbVars, pctVars, rlVars, maVars>>
vars == <<engineVars, cmVars, pcsVars, rmVars, auxVars>>

-----------------------------------------------------------------------------
(* Bounds of the model *)

MaxEntryConds == 2
MaxExitConds == 2

\* Confidence values (hundredths) an entry condition may attach to a signal.
ConfidenceValues == {60, 90}

\* The single connector registered in api_connectors.
Exchange == "binance"

\* Position lists get_positions may return: one PositionInfo for each row
\* of the exchange's answer with a non-zero amount.  An account in two-way
\* position mode has a long and a short row for the same symbol.
LedgerChoices ==
    {<<>>, <<"BTCUSDT">>, <<"BTCUSDT", "ETHUSDT">>, <<"BTCUSDT", "BTCUSDT">>}

-----------------------------------------------------------------------------
(* Helpers *)

Range(s) == {s[i] : i \in 1..Len(s)}

RECURSIVE SumConfidence(_)
SumConfidence(s) ==
    IF s = <<>> THEN 0 ELSE Head(s).confidence + SumConfidence(Tail(s))

\* Python max(signals, key=lambda s: s.confidence): the first of the maxima.
MaxByConfidence(s) ==
    LET i == CHOOSE i \in 1..Len(s) :
                 /\ \A j \in 1..Len(s) : s[j].confidence <= s[i].confidence
                 /\ \A j \in 1..(i - 1) : s[j].confidence < s[i].confidence
    IN s[i]

\* What a condition's evaluate may do: return None, return a Signal, raise.
NoneOutcome == [kind |-> "none", confidence |-> 0]
RaiseOutcome == [kind |-> "raise", confidence |-> 0]
SkipOutcome == [kind |-> "skipped", confidence |-> 0]
EntryOutcomes ==
    {NoneOutcome, RaiseOutcome}
        \cup {[kind |-> "signal", confidence |-> c] : c \in ConfidenceValues}
ExitOutcomes == {"none", "signal", "raise"}
RiskVerdicts == {"accept", "reject", "raise"}

\* daily_max_trades of the settings handed to the engine's RiskManager.
EngineTradeCaps == {0, 1}

ActiveCount(conds) == Cardinality({i \in 1..Len(conds) : conds[i].enabled})

-----------------------------------------------------------------------------
(* RiskManager: validate_entry_signal and its checks *)

\* The attributes RiskManager.__init__ assigns on self.
AssignedAttributes ==
    {"config", "logger", "max_leverage", "position_mode", "auto_adjust_leverage",
     "max_positions", "max_position_size", "daily_max_trades", "daily_limit",
     "auto_stop", "stop_levels", "daily_trades", "daily_loss", "last_reset_date",
     "active_positions"}

\* position_config.get("daily_limit", "5%"), parsed by _parse_daily_limit
DefaultDailyLimit == 5

\* _check_daily_trades, first half: the counters are reset when the date
\* read from the clock is later than last_reset_date.
\* Mutant: a validation counts as a trade of the day.
TradesAfterValidation(dt, lrd, d) == IF d > lrd THEN 0 ELSE dt + 1

TradesAfterReset(dt, lrd, d) == IF d > lrd THEN 0 ELSE dt
LossAfterReset(dl, lrd, d) == IF d > lrd THEN 0 ELSE dl
DateAfterReset(lrd, d) == IF d > lrd THEN d ELSE lrd

\* _check_daily_trades, return value
CheckDailyTrades(dt, lrd, d, cap) == TradesAfterReset(dt, lrd, d) < cap

\* _check_max_positions
CheckMaxPositions(ap, cap) == Len(ap) < cap

\* _check_daily_loss: its first statement reads self.account_balance; reading
\* an attribute that was never assigned raises AttributeError, and the rest
\* of the body (which reads self.daily_pnl and self.daily_loss_limit, never
\* assigned either) is not reached.
CheckDailyLoss ==
    CASE "account_balance" \notin AssignedAttributes -> "raise"

\* _check_position_size: its first statement reads self.account_balance too.
CheckPositionSize ==
    CASE "account_balance" \notin AssignedAttributes -> "raise"

\* validate_entry_signal: the checks in order, False at the first that
\* fails; an exception of a check leaves the function.  The value is the
\* outcome together with the checks that were evaluated.
ValidateEntrySignal(dt, lrd, d, tcap, ap, pcap) ==
    IF ~CheckDailyTrades(dt, lrd, d, tcap)
    THEN [result |-> "false", checks |-> <<"daily_trades">>]
    ELSE IF ~CheckMaxPositions(ap, pcap)
    THEN [result |-> "false", checks |-> <<"daily_trades", "max_positions">>]
    ELSE IF CheckDailyLoss # "pass"
    THEN [result |-> IF CheckDailyLoss = "raise" THEN "raise" ELSE "false",
          checks |-> <<"daily_trades", "max_positions", "daily_loss">>]
    ELSE [result |-> IF CheckPositionSize = "pass" THEN "true"
                     ELSE IF CheckPositionSize = "raise" THEN "raise" ELSE "false",
          checks |-> <<"daily_trades", "max_positions", "daily_loss",
                       "position_size">>]

\* What the engine sees of a validate_entry_signal call on the attached
\* RiskManager in its present state.
RMVerdict ==
    LET v == ValidateEntrySignal(daily_trades, last_reset_date, today,
                                 daily_max_trades, active_positions, max_positions)
    IN CASE v.result = "true" -> "accept"
         [] v.result = "false" -> "reject"
         [] v.result = "raise" -> "raise"

-----------------------------------------------------------------------------
(* TradingEngine: entry evaluation (_evaluate_entry_conditions) *)

\* An entry Signal as the engine sees it: source is the index of the
\* condition that produced it; metadata exchange, combination and combined
\* (a key the engine never sets, so it reads as FALSE).
EntrySignal(i, c) ==
    [source |-> i, confidence |-> c, exchange |-> Exchange,
     combination |-> "", combined |-> FALSE]

RECURSIVE ConditionSignalsFrom(_, _, _)
\* The per-condition loop: every active condition is evaluated in list order;
\* a returned Signal is appended, None is skipped, an exception is logged.
ConditionSignalsFrom(i, conds, res) ==
    IF i > Len(conds) THEN <<>>
    ELSE (IF conds[i].enabled /\ res[i].kind = "signal"
          THEN <<EntrySignal(i, res[i].confidence)>>
          ELSE <<>>) \o ConditionSignalsFrom(i + 1, conds, res)

RECURSIVE RememberedSignalsFrom(_, _, _)
RememberedSignalsFrom(i, conds, res) ==
    IF i > Len(conds) THEN <<>>
    ELSE (IF conds[i].enabled /\ res[i].kind = "signal"
          THEN <<EntrySignal(i, res[i].confidence)>>
          ELSE IF conds[i].enabled /\ i \in signalled_before
               THEN <<EntrySignal(i, 60)>>
               ELSE <<>>) \o RememberedSignalsFrom(i + 1, conds, res)

\* Mutant: a condition that signalled in an earlier cycle still counts.
CollectWithMemory(conds, res) == RememberedSignalsFrom(1, conds, res)

CollectConditionSignals(conds, res) == ConditionSignalsFrom(1, conds, res)

Tag(s, mode) == [s EXCEPT !.combination = mode]

\* Mutant: AND fires as soon as one condition returned a signal.
CombineEngineAnySignal(mode, conds, csigs) ==
    IF mode = "AND"
    THEN IF Len(csigs) > 0
         THEN <<Tag(MaxByConfidence(csigs), "AND")>>
         ELSE <<>>
    ELSE [k \in 1..Len(csigs) |-> Tag(csigs[k], "OR")]

\* The AND/OR stage: the signals that go on to risk validation.
CombineEngine(mode, conds, csigs) ==
    IF mode = "AND"
    THEN IF Len(csigs) = ActiveCount(conds) /\ ActiveCount(conds) > 0
         THEN <<Tag(MaxByConfidence(csigs), "AND")>>
         ELSE <<>>
    ELSE [k \in 1..Len(csigs) |-> Tag(csigs[k], "OR")]

RECURSIVE RiskFilterFrom(_, _, _, _)
\* not self.risk_manager or self.risk_manager.validate_entry_signal(signal)
RiskFilterFrom(k, cands, rm, verdict) ==
    IF k > Len(cands) THEN <<>>
    ELSE (IF ~rm \/ verdict[k] = "accept" THEN <<cands[k]>> ELSE <<>>)
             \o RiskFilterFrom(k + 1, cands, rm, verdict)

RiskFilter(cands, rm, verdict) == RiskFilterFrom(1, cands, rm, verdict)

\* validate_entry_signal raised for one of the candidates: the exception
\* leaves _evaluate_entry_conditions and _run_trading_cycle.
RiskRaises(cands, rm, verdict) ==
    rm /\ \E k \in 1..Len(cands) : verdict[k] = "raise"

-----------------------------------------------------------------------------
(* TradingEngine: exit evaluation (_evaluate_exit_conditions) *)

ExitSignal(sym, j) == [source |-> j, position_id |-> sym, exchange |-> Exchange]

RECURSIVE ExitSignalsFrom(_, _, _, _)
\* for condition in self.exit_conditions (inner loop, for one position):
\* every active condition is evaluated and every returned Signal is appended;
\* None is skipped and an exception is logged.
ExitSignalsFrom(j, sym, conds, res) ==
    IF j > Len(conds) THEN <<>>
    ELSE (IF conds[j].enabled /\ res[j] = "signal"
          THEN <<ExitSignal(sym, j)>>
          ELSE <<>>) \o ExitSignalsFrom(j + 1, sym, conds, res)

\* Mutant: exit signals pass through the risk manager like entry signals.
EvaluateExitRiskGated(sym, conds, res) ==
    IF risk_manager /\ RMVerdict # "accept" THEN <<>>
    ELSE ExitSignalsFrom(1, sym, conds, res)

EvaluateExitForPosition(sym, conds, res) == ExitSignalsFrom(1, sym, conds, res)

\* Number of exit conditions whose evaluate returned a Signal.
SignalsReturned(res) == Cardinality({j \in DOMAIN res : res[j] = "signal"})

-----------------------------------------------------------------------------
(* TradingEngine: order execution (_execute_entry_signal, _execute_exit_signal) *)

\* What the connector does with an order: it returns a response with status
\* FILLED, a response with another status (rejected, expired), or raises.
OrderOutcomes == {"filled", "rejected", "raise"}

\* _execute_entry_signal: trade_executed is emitted with type ENTRY when the
\* response is FILLED; another status is passed over in silence and an
\* exception is logged.
EntryEvent(o) == IF o = "filled" THEN "ENTRY" ELSE "none"

\* _execute_exit_signal: close_position is a plain method, so awaiting what
\* it returned raises TypeError before result.status is read; the exception
\* is logged and nothing is emitted, whatever the exchange did.
ExitEvent(o) == "none"

-----------------------------------------------------------------------------
(* TradingEngine: state after __init__ *)

EngineInit ==
    /\ is_running = FALSE
    /\ is_trading_enabled = FALSE
    /\ update_task = FALSE
    /\ combination_mode = "OR"
    /\ entry_conditions = <<>>
    /\ exit_conditions = <<>>
    /\ risk_manager = FALSE
    /\ positions = <<>>
    /\ market_data_cache = FALSE
    /\ pc = "idle"
    /\ entry_signals = <<>>
    /\ exit_signals = <<>>
    /\ exit_idx = 0
    /\ exec_exit = <<>>
    /\ exec_entry = <<>>
    /\ orders = <<>>
    /\ entry_results = <<>>
    /\ condition_signals = <<>>
    /\ combined = <<>>
    /\ signalled_before = {}
    /\ md_fresh = FALSE
    /\ exit_returned = 0
    /\ last_order = <<>>

cycleVars == <<entry_signals, exit_signals, exit_idx, exec_exit, exec_entry, orders,
               entry_results, condition_signals, combined, md_fresh, exit_returned,
               last_order>>
configVars == <<combination_mode, entry_conditions, exit_conditions, risk_manager>>
runVars == <<is_running, is_trading_enabled, update_task>>

-----------------------------------------------------------------------------
(* TradingEngine: external interface, called between cycles *)

Start ==
    /\ pc = "idle" /\ ~is_running
    /\ is_running' = TRUE
    /\ update_task' = TRUE
    /\ UNCHANGED <<is_trading_enabled, configVars, positions, market_data_cache,
                   pc, cycleVars, signalled_before, cmVars, pcsVars, rmVars,
                   auxVars>>

StartSync ==
    /\ pc = "idle" /\ ~is_running
    /\ is_running' = TRUE
    /\ is_trading_enabled' = TRUE
    /\ UNCHANGED <<update_task, configVars, positions, market_data_cache,
                   pc, cycleVars, signalled_before, cmVars, pcsVars, rmVars,
                   auxVars>>

\* stop() cancels trading_task, which start() created: the cancellation is
\* delivered where the loop is suspended, in its sleep between two cycles.
\* The loop that start_sync() runs in a thread of its own is no task of
\* the engine: stop() only clears the flags, at any point of a cycle.
Stop ==
    /\ is_running
    /\ pc = "idle" \/ ~update_task
    /\ is_running' = FALSE
    /\ is_trading_enabled' = FALSE
    /\ update_task' = FALSE
    /\ UNCHANGED <<configVars, positions, market_data_cache, pc, cycleVars,
                   signalled_before, cmVars, pcsVars, rmVars,
                   auxVars>>

\* Mutant: an exception that reaches the loop ends it.
LoopEndsOnException == "dead"

\* _trading_loop, except Exception: the error is logged, the loop sleeps
\* five seconds and goes on with the next cycle.
AfterCycleException == "idle"

EnableTrading ==
    /\ pc = "idle" /\ ~is_trading_enabled
    /\ is_trading_enabled' = TRUE
    /\ UNCHANGED <<is_running, update_task, configVars, positions,
                   market_data_cache, pc, cycleVars, signalled_before,
                   cmVars, pcsVars, rmVars,
                   auxVars>>

DisableTrading ==
    /\ pc = "idle" /\ is_trading_enabled
    /\ is_trading_enabled' = FALSE
    /\ UNCHANGED <<is_running, update_task, configVars, positions,
                   market_data_cache, pc, cycleVars, signalled_before,
                   cmVars, pcsVars, rmVars,
                   auxVars>>

AddEntryCondition ==
    /\ pc = "idle" /\ Len(entry_conditions) < MaxEntryConds
    /\ \E en \in BOOLEAN :
           entry_conditions' = Append(entry_conditions, [enabled |-> en])
    /\ signalled_before' = {}
    /\ UNCHANGED <<runVars, combination_mode, exit_conditions, risk_manager,
                   positions, market_data_cache, pc, cycleVars, cmVars, pcsVars, rmVars,
                   auxVars>>

AddExitCondition ==
    /\ pc = "idle" /\ Len(exit_conditions) < MaxExitConds
    /\ \E en \in BOOLEAN :
           exit_conditions' = Append(exit_conditions, [enabled |-> en])
    /\ UNCHANGED <<runVars, combination_mode, entry_conditions, risk_manager,
                   positions, market_data_cache, pc, cycleVars,
                   signalled_before, cmVars, pcsVars, rmVars,
                   auxVars>>

\* RiskTab.update_risk_settings: a RiskManager is constructed from the
\* settings and handed to set_risk_manager.
SetRiskManager ==
    /\ pc = "idle"
    /\ risk_manager' = TRUE
    /\ \E tcap \in EngineTradeCaps : daily_max_trades' = tcap
    /\ max_positions' = 1
    /\ daily_trades' = 0
    /\ daily_loss' = 0
    /\ last_reset_date' = today
    /\ active_positions' = <<>>
    /\ rm_call' = [kind |-> "none", new_day |-> FALSE, trades_before |-> 0,
                   loss_before |-> 0]
    /\ rm_result' = "none"
    /\ rm_checks' = <<>>
    /\ UNCHANGED <<runVars, combination_mode, entry_conditions, exit_conditions,
                   positions, market_data_cache, pc, cycleVars,
                   signalled_before, today, cmVars, pcsVars,
                   auxVars>>

SetCombinationMode ==
    /\ pc = "idle"
    /\ \E mode \in {"AND", "OR", "XOR"} :
           /\ mode # combination_mode
           /\ combination_mode' =
                  IF mode \in {"AND", "OR"} THEN mode ELSE combination_mode
           /\ signalled_before' =
                  IF mode \in {"AND", "OR"} THEN {} ELSE signalled_before
    /\ UNCHANGED <<runVars, entry_conditions, exit_conditions, risk_manager,
                   positions, market_data_cache, pc, cycleVars, cmVars, pcsVars, rmVars,
                   auxVars>>

\* _update_loop -> _update_positions: self.positions[exchange] = get_positions()
UpdatePositions ==
    /\ pc = "idle" /\ is_running /\ update_task
    /\ \E ledger \in LedgerChoices : positions' = ledger
    /\ UNCHANGED <<runVars, configVars, market_data_cache, pc, cycleVars,
                   signalled_before, cmVars, pcsVars, rmVars,
                   auxVars>>

\* BaseCondition.enable / BaseCondition.disable on a registered condition
SetEntryConditionEnabled ==
    /\ pc = "idle"
    /\ \E i \in 1..Len(entry_conditions) :
           entry_conditions' =
               [entry_conditions EXCEPT ![i].enabled = ~entry_conditions[i].enabled]
    /\ signalled_before' = {}
    /\ UNCHANGED <<runVars, combination_mode, exit_conditions, risk_manager,
                   positions, market_data_cache, pc, cycleVars, cmVars, pcsVars, rmVars,
                   auxVars>>

SetExitConditionEnabled ==
    /\ pc = "idle"
    /\ \E j \in 1..Len(exit_conditions) :
           exit_conditions' =
               [exit_conditions EXCEPT ![j].enabled = ~exit_conditions[j].enabled]
    /\ UNCHANGED <<runVars, combination_mode, entry_conditions, risk_manager,
                   positions, market_data_cache, pc, cycleVars,
                   signalled_before, cmVars, pcsVars, rmVars,
                   auxVars>>

\* ExitTab.update_exit_conditions, run by the GUI thread on every change of
\* an exit setting: the engine's list is cleared and one condition is added
\* for each rule that is checked.  The loop that start() runs shares its
\* thread with the caller and is met between two cycles; the loop that
\* start_sync() runs is in a thread of its own, at any point of a cycle.
UpdateExitConditions ==
    /\ pc = "idle" \/ ~update_task
    /\ \E n \in 0..MaxExitConds :
           exit_conditions' = [j \in 1..n |-> [enabled |-> TRUE]]
    /\ UNCHANGED <<runVars, combination_mode, entry_conditions, risk_manager,
                   positions, market_data_cache, pc, cycleVars,
                   signalled_before, cmVars, pcsVars, rmVars,
                   auxVars>>

-----------------------------------------------------------------------------
(* TradingEngine: one trading cycle (_trading_loop -> _run_trading_cycle) *)

\* Inputs of one entry evaluation: what evaluate does for each condition
\* (an inactive condition is not called).
EntryInputs(conds) ==
    {res \in [1..Len(conds) -> EntryOutcomes \cup {SkipOutcome}] :
        \A i \in 1..Len(conds) : (res[i] = SkipOutcome) <=> ~conds[i].enabled}

\* Inputs of the exit evaluation of one position: what evaluate does for
\* each condition (an inactive condition is not called).
ExitInputs(conds) ==
    {res \in [1..Len(conds) -> ExitOutcomes] :
        \A j \in 1..Len(conds) : ~conds[j].enabled => res[j] = "none"}

\* Inputs of risk validation: what validate_entry_signal does for each
\* candidate (it is not called when no risk manager is set).
RiskInputs(cands, rm) ==
    IF rm THEN {[k \in 1..Len(cands) |-> RMVerdict]}
    ELSE {[k \in 1..Len(cands) |-> "accept"]}

\* The calls of validate_entry_signal made for the candidates: the record of
\* the last call and the daily reset it performs; no call without candidates
\* or without a risk manager.
RiskManagerCalled(cands) ==
    IF risk_manager /\ Len(cands) > 0
    THEN /\ LET v == ValidateEntrySignal(daily_trades, last_reset_date, today,
                                         daily_max_trades, active_positions,
                                         max_positions)
            IN /\ rm_result' = v.result
               /\ rm_checks' = v.checks
         /\ rm_call' = [kind |-> "validate", new_day |-> today > last_reset_date,
                        trades_before |-> daily_trades, loss_before |-> daily_loss]
         /\ daily_trades' = TradesAfterReset(daily_trades, last_reset_date, today)
         /\ daily_loss' = LossAfterReset(daily_loss, last_reset_date, today)
         /\ last_reset_date' = DateAfterReset(last_reset_date, today)
         /\ UNCHANGED <<daily_max_trades, max_positions, active_positions, today>>
    ELSE UNCHANGED rmVars

\* Conditions that returned a signal in cycles before the current one, as
\* long as AND has not fired and the configuration has not changed.
RememberSignalled ==
    IF combination_mode = "AND" /\ combined = <<>>
    THEN signalled_before
             \cup {i \in 1..Len(entry_results) : entry_results[i].kind = "signal"}
    ELSE {}

\* if not self.is_trading_enabled: return
SkipCycle ==
    /\ pc = "idle" /\ is_running /\ ~is_trading_enabled
    /\ UNCHANGED vars

\* What one collection does for the exchange: the connector delivers market
\* data; the exchange is not reached and made-up data is stored in its
\* place (get_market_data returns default prices, a missing ticker is
\* replaced by a default price); or the connector raises.
CollectOutcomes == {"data", "fallback", "raise"}

\* Mutant: a cycle that does not look at is_trading_enabled.
CollectMarketDataUngated ==
    /\ pc = "idle" /\ is_running
    /\ \E r \in CollectOutcomes :
           /\ market_data_cache' = (market_data_cache \/ r # "raise")
           /\ md_fresh' = (r = "data")
    /\ pc' = "entry"
    /\ UNCHANGED <<runVars, configVars, positions, entry_signals, exit_signals,
                   exit_idx, exec_exit, exec_entry, orders, entry_results,
                   condition_signals, combined, exit_returned, last_order,
                   signalled_before, cmVars, pcsVars, rmVars,
                   auxVars>>

\* [1/4] _collect_market_data: a connector that raises leaves the cache as
\* it was, with the data of an earlier cycle if there was one.
CollectMarketData ==
    /\ pc = "idle" /\ is_running /\ is_trading_enabled
    /\ \E r \in CollectOutcomes :
           /\ market_data_cache' = (market_data_cache \/ r # "raise")
           /\ md_fresh' = (r = "data")
    /\ pc' = "entry"
    /\ UNCHANGED <<runVars, configVars, positions, entry_signals, exit_signals,
                   exit_idx, exec_exit, exec_entry, orders, entry_results,
                   condition_signals, combined, exit_returned, last_order,
                   signalled_before, cmVars, pcsVars, rmVars,
                   auxVars>>

\* [2/4] entry_signals = await self._evaluate_entry_conditions()
EvaluateEntry ==
    /\ pc = "entry"
    /\ IF Len(entry_conditions) = 0 \/ ~market_data_cache
       THEN /\ pc' = "exit"
            /\ UNCHANGED <<entry_signals, entry_results, condition_signals,
                           combined, signalled_before, md_fresh, rmVars>>
       ELSE \E res \in EntryInputs(entry_conditions) :
              LET csigs == CollectConditionSignals(entry_conditions, res)
                  cands == CombineEngine(combination_mode, entry_conditions, csigs)
              IN \E verdict \in RiskInputs(cands, risk_manager) :
                   /\ RiskManagerCalled(cands)
                   /\ IF RiskRaises(cands, risk_manager, verdict)
                      THEN /\ pc' = AfterCycleException
                           /\ entry_signals' = <<>>
                           /\ entry_results' = <<>>
                           /\ condition_signals' = <<>>
                           /\ combined' = <<>>
                           /\ signalled_before' = {}
                           /\ md_fresh' = FALSE
                      ELSE /\ pc' = "exit"
                           /\ entry_signals' = RiskFilter(cands, risk_manager, verdict)
                           /\ entry_results' = res
                           /\ condition_signals' = csigs
                           /\ combined' = cands
                           /\ UNCHANGED <<signalled_before, md_fresh>>
    /\ UNCHANGED <<runVars, configVars, positions, market_data_cache,
                   exit_signals, exit_idx, exec_exit, exec_entry, orders,
                   exit_returned, last_order, cmVars, pcsVars,
                   auxVars>>

\* [3/4] exit_signals = await self._evaluate_exit_conditions(): one step per
\* position of self.positions[exchange]; the step that enters the function
\* is the one at which the locals of _evaluate_entry_conditions are gone.
\* A list of exit conditions emptied between two positions ends the inner
\* loop of the positions that remain and keeps the signals collected so far.
EvaluateExit ==
    /\ pc = "exit"
    /\ IF \/ exit_idx = 0 /\ Len(exit_conditions) = 0
          \/ ~market_data_cache
          \/ Len(positions) = 0
       THEN /\ exit_signals' = <<>>
            /\ exit_idx' = 0
            /\ pc' = "dispatch"
            /\ UNCHANGED exit_returned
       ELSE /\ \E res \in ExitInputs(exit_conditions) :
                  /\ exit_signals' =
                         exit_signals \o EvaluateExitForPosition(
                             positions[exit_idx + 1], exit_conditions, res)
                  /\ exit_returned' = exit_returned + SignalsReturned(res)
            /\ exit_idx' = IF exit_idx + 1 = Len(positions) THEN 0 ELSE exit_idx + 1
            /\ pc' = IF exit_idx + 1 = Len(positions) THEN "dispatch" ELSE "exit"
    /\ signalled_before' = IF exit_idx = 0 THEN RememberSignalled ELSE signalled_before
    /\ entry_results' = <<>>
    /\ condition_signals' = <<>>
    /\ combined' = <<>>
    /\ UNCHANGED <<runVars, configVars, positions, market_data_cache,
                   entry_signals, exec_exit, exec_entry, orders, md_fresh,
                   last_order, cmVars, pcsVars, rmVars,
                   auxVars>>

\* [4/4] the if / elif / else that calls _execute_signals
DispatchSignals ==
    /\ pc = "dispatch"
    /\ IF entry_signals # <<>>
       THEN exec_entry' = entry_signals /\ exec_exit' = <<>>
       ELSE IF exit_signals # <<>>
            THEN exec_entry' = <<>> /\ exec_exit' = exit_signals
            ELSE exec_entry' = <<>> /\ exec_exit' = <<>>
    /\ pc' = "exec"
    /\ UNCHANGED <<runVars, configVars, positions, market_data_cache,
                   entry_signals, exit_signals, exit_idx, orders, entry_results,
                   condition_signals, combined, signalled_before, md_fresh,
                   exit_returned, last_order, cmVars, pcsVars, rmVars,
                   auxVars>>

\* _execute_signals, first loop: _execute_exit_signal -> connector.close_position
ExecuteExitSignal ==
    /\ pc = "exec" /\ exec_exit # <<>>
    /\ orders' = Append(orders, [kind |-> "exit", signal |-> Head(exec_exit)])
    /\ \E o \in OrderOutcomes :
           last_order' = <<[kind |-> "exit", signal |-> Head(exec_exit),
                            outcome |-> o, emitted |-> ExitEvent(o)]>>
    /\ exec_exit' = Tail(exec_exit)
    /\ UNCHANGED <<runVars, configVars, positions, market_data_cache, pc,
                   entry_signals, exit_signals, exit_idx, exec_entry, entry_results,
                   condition_signals, combined, signalled_before, md_fresh,
                   exit_returned, cmVars, pcsVars, rmVars,
                   auxVars>>

\* _execute_signals, second loop: _execute_entry_signal -> connector.place_order
ExecuteEntrySignal ==
    /\ pc = "exec" /\ exec_exit = <<>> /\ exec_entry # <<>>
    /\ orders' = Append(orders, [kind |-> "entry", signal |-> Head(exec_entry)])
    /\ \E o \in OrderOutcomes :
           last_order' = <<[kind |-> "entry", signal |-> Head(exec_entry),
                            outcome |-> o, emitted |-> EntryEvent(o)]>>
    /\ exec_entry' = Tail(exec_entry)
    /\ UNCHANGED <<runVars, configVars, positions, market_data_cache, pc,
                   entry_signals, exit_signals, exit_idx, exec_exit, entry_results,
                   condition_signals, combined, signalled_before, md_fresh,
                   exit_returned, cmVars, pcsVars, rmVars,
                   auxVars>>

\* _run_trading_cycle returns; the loop sleeps until the next cycle.
CycleDone ==
    /\ pc = "exec" /\ exec_exit = <<>> /\ exec_entry = <<>>
    /\ pc' = "idle"
    /\ entry_signals' = <<>>
    /\ exit_signals' = <<>>
    /\ orders' = <<>>
    /\ md_fresh' = FALSE
    /\ exit_returned' = 0
    /\ last_order' = <<>>
    /\ UNCHANGED <<runVars, configVars, positions, market_data_cache, exit_idx,
                   exec_exit, exec_entry, entry_results, condition_signals,
                   combined, signalled_before, cmVars, pcsVars, rmVars,
                   auxVars>>

-----------------------------------------------------------------------------
(* ConditionManager *)

\* The name of the i-th registered condition (BaseCondition.name).
ConditionName(i) == ToString(i)

\* EntryCondition._create_signal: a Signal whose source is the condition.
CMSignal(i, c) ==
    [source |-> ConditionName(i), confidence |-> c,
     combined |-> FALSE, original_source |-> ""]

\* ConditionManager._create_combined_signal
CreateCombinedSignal(base_signal, confidence, source) ==
    [source |-> source, confidence |-> confidence,
     combined |-> TRUE, original_source |-> base_signal.source]

RECURSIVE CMSignalsFrom(_, _, _)
\* evaluate_entry_conditions: the signals of the active conditions, in order.
CMSignalsFrom(i, conds, res) ==
    IF i > Len(conds) THEN <<>>
    ELSE (IF conds[i].enabled /\ res[i].kind = "signal"
          THEN <<CMSignal(i, res[i].confidence)>>
          ELSE <<>>) \o CMSignalsFrom(i + 1, conds, res)

\* ConditionManager._combine_entry_signals; None is <<>>.
CombineEntrySignals(mode, conds, signals) ==
    IF signals = <<>> THEN <<>>
    ELSE IF mode = "AND"
         THEN IF Len(signals) = ActiveCount(conds)
              THEN <<CreateCombinedSignal(
                         signals[1],
                         SumConfidence(signals) \div Len(signals),
                         "AND_COMBINATION")>>
              ELSE <<>>
         ELSE <<MaxByConfidence(signals)>>

\* ConditionManager.evaluate_entry_conditions
CMEvaluateEntryConditions(mode, conds, res) ==
    IF Len(conds) = 0 \/ ActiveCount(conds) = 0 THEN <<>>
    ELSE CombineEntrySignals(mode, conds, CMSignalsFrom(1, conds, res))

RECURSIVE CMFirstExitFrom(_, _, _)
\* ConditionManager.evaluate_exit_conditions: the first active condition
\* that returns a signal decides; one that raises is logged and skipped.
CMFirstExitFrom(j, conds, res) ==
    IF j > Len(conds) THEN <<>>
    ELSE IF conds[j].enabled /\ res[j] = "signal"
         THEN <<[source |-> ConditionName(j)]>>
         ELSE CMFirstExitFrom(j + 1, conds, res)

CMEvaluateExitConditions(conds, res) == CMFirstExitFrom(1, conds, res)

\* State after ConditionManager.__init__
CMInit ==
    /\ cm_entry_conditions = <<>>
    /\ cm_exit_conditions = <<>>
    /\ cm_combination_mode = "OR"
    /\ cm_inputs = <<>>
    /\ cm_call = "none"
    /\ cm_result = <<>>

\* The record of the last call is dropped when the configuration changes.
CMForgetCall ==
    /\ cm_inputs' = <<>>
    /\ cm_call' = "none"
    /\ cm_result' = <<>>

CMAddEntryCondition ==
    /\ Len(cm_entry_conditions) < MaxEntryConds
    /\ \E en \in BOOLEAN :
           cm_entry_conditions' = Append(cm_entry_conditions, [enabled |-> en])
    /\ CMForgetCall
    /\ UNCHANGED <<cm_exit_conditions, cm_combination_mode, engineVars, pcsVars, rmVars,
                   auxVars>>

CMAddExitCondition ==
    /\ Len(cm_exit_conditions) < MaxExitConds
    /\ \E en \in BOOLEAN :
           cm_exit_conditions' = Append(cm_exit_conditions, [enabled |-> en])
    /\ CMForgetCall
    /\ UNCHANGED <<cm_entry_conditions, cm_combination_mode, engineVars, pcsVars, rmVars,
                   auxVars>>

CMSetCombinationMode ==
    /\ \E mode \in {"AND", "OR", "XOR"} :
           /\ mode # cm_combination_mode
           /\ cm_combination_mode' =
                  IF mode \in {"AND", "OR"} THEN mode ELSE cm_combination_mode
    /\ CMForgetCall
    /\ UNCHANGED <<cm_entry_conditions, cm_exit_conditions, engineVars, pcsVars, rmVars,
                   auxVars>>

CMEnableAllConditions ==
    /\ cm_entry_conditions' =
           [i \in 1..Len(cm_entry_conditions) |-> [enabled |-> TRUE]]
    /\ cm_exit_conditions' =
           [j \in 1..Len(cm_exit_conditions) |-> [enabled |-> TRUE]]
    /\ CMForgetCall
    /\ UNCHANGED <<cm_combination_mode, engineVars, pcsVars, rmVars,
                   auxVars>>

CMDisableAllConditions ==
    /\ cm_entry_conditions' =
           [i \in 1..Len(cm_entry_conditions) |-> [enabled |-> FALSE]]
    /\ cm_exit_conditions' =
           [j \in 1..Len(cm_exit_conditions) |-> [enabled |-> FALSE]]
    /\ CMForgetCall
    /\ UNCHANGED <<cm_combination_mode, engineVars, pcsVars, rmVars,
                   auxVars>>

CMEvaluateEntry ==
    /\ \E res \in EntryInputs(cm_entry_conditions) :
           /\ cm_inputs' = res
           /\ cm_result' = CMEvaluateEntryConditions(
                               cm_combination_mode, cm_entry_conditions, res)
    /\ cm_call' = "entry"
    /\ UNCHANGED <<cm_entry_conditions, cm_exit_conditions, cm_combination_mode,
                   engineVars, pcsVars, rmVars,
                   auxVars>>

CMEvaluateExit ==
    /\ \E res \in {r \in [1..Len(cm_exit_conditions) -> ExitOutcomes] :
                     \A j \in 1..Len(cm_exit_conditions) :
                         ~cm_exit_conditions[j].enabled => r[j] = "none"} :
           /\ cm_inputs' = res
           /\ cm_result' = CMEvaluateExitConditions(cm_exit_conditions, res)
    /\ cm_call' = "exit"
    /\ UNCHANGED <<cm_entry_conditions, cm_exit_conditions, cm_combination_mode,
                   engineVars, pcsVars, rmVars,
                   auxVars>>

CMNext ==
    \/ CMAddEntryCondition
    \/ CMAddExitCondition
    \/ CMSetCombinationMode
    \/ CMEnableAllConditions
    \/ CMDisableAllConditions
    \/ CMEvaluateEntry
    \/ CMEvaluateExit

-----------------------------------------------------------------------------
(* PCSSystemCondition: the 12-step TP/SL ladder *)

\* config/constants.py PCS_DEFAULT_LEVELS (tp and sl in percent)
PCS_DEFAULT_LEVELS ==
    << [step |-> 1,  tp |-> 2,  sl |-> -1],
       [step |-> 2,  tp |-> 4,  sl |-> -2],
       [step |-> 3,  tp |-> 6,  sl |-> -3],
       [step |-> 4,  tp |-> 8,  sl |-> -4],
       [step |-> 5,  tp |-> 10, sl |-> -5],
       [step |-> 6,  tp |-> 12, sl |-> -6],
       [step |-> 7,  tp |-> 15, sl |-> -8],
       [step |-> 8,  tp |-> 20, sl |-> -10],
       [step |-> 9,  tp |-> 25, sl |-> -12],
       [step |-> 10, tp |-> 30, sl |-> -15],
       [step |-> 11, tp |-> 40, sl |-> -20],
       [step |-> 12, tp |-> 50, sl |-> -25] >>

\* params.get("active_steps", [1, 2, 3, 4, 5, 6])
DefaultActiveSteps == 1..6

\* Longest cfg.exit.pcs_steps list the model draws.
MaxCfgSteps == 2

\* Step numbers used by the drawn configurations and active_steps.
CfgStepNumbers == {1, 2, 3}

\* Entries of cfg.exit.pcs_steps: 'tp' and 'sl' are optional keys, <<>> when
\* the key is absent; a custom entry sets both thresholds to 1 percent.
CfgEntries ==
    [step : CfgStepNumbers, enabled : BOOLEAN, tp : {<<>>}, sl : {<<>>}]
        \cup [step : CfgStepNumbers, enabled : BOOLEAN, tp : {<<1>>}, sl : {<<1>>}]

RECURSIVE SeqsUpTo(_, _)
SeqsUpTo(S, n) ==
    IF n = 0 THEN {<<>>}
    ELSE LET shorter == SeqsUpTo(S, n - 1)
         IN shorter \cup {Append(s, x) : s \in shorter, x \in S}

\* next((lv for lv in PCS_DEFAULT_LEVELS if lv['step'] == step_no), None)
DefaultLevel(step_no) ==
    SelectSeq(PCS_DEFAULT_LEVELS, LAMBDA lv : lv.step = step_no)

\* One entry of the configured list turned into a level.
LevelOfEntry(e) ==
    LET const == DefaultLevel(e.step)
    IN [step |-> e.step,
        tp |-> IF e.tp # <<>> THEN e.tp[1]
               ELSE IF const # <<>> THEN const[1].tp ELSE 0,
        sl |-> IF e.sl # <<>> THEN e.sl[1]
               ELSE IF const # <<>> THEN const[1].sl ELSE 0,
        enabled |-> e.enabled]

\* PCSSystemCondition._load_pcs_levels_from_config: the configured list when
\* it can be read and is not empty, the constants (all enabled) otherwise.
LoadPcsLevelsFromConfig(steps, raises) ==
    IF ~raises /\ steps # <<>>
    THEN [k \in 1..Len(steps) |-> LevelOfEntry(steps[k])]
    ELSE [k \in 1..Len(PCS_DEFAULT_LEVELS) |->
             [step |-> PCS_DEFAULT_LEVELS[k].step,
              tp |-> PCS_DEFAULT_LEVELS[k].tp,
              sl |-> PCS_DEFAULT_LEVELS[k].sl,
              enabled |-> TRUE]]

\* Mutant: the enabled flag of a level is ignored.
GetLevelsOfActiveSteps(levels, act) ==
    SelectSeq(levels, LAMBDA lv : lv.step \in act)

\* PCSSystemCondition.get_active_levels
GetActiveLevels(levels, act) ==
    SelectSeq(levels, LAMBDA lv : lv.enabled /\ lv.step \in act)

\* Positions handed to evaluate: None, a flat position (size 0), and open
\* positions with entry price 100, so that the PnL percentage is the move.
PnlMoves == {-3, -1, 0, 1, 2, 5}
PositionInputs ==
    {<<>>,
     <<[side |-> "LONG", size |-> 0, entry_price |-> 100, current_price |-> 100]>>}
    \cup
    {<<[side |-> sd, size |-> 1, entry_price |-> 100, current_price |-> 100 + m]>> :
        sd \in {"LONG", "SHORT"}, m \in PnlMoves}

\* ExitCondition._validate_position (after "not position")
ValidatePosition(p) == p.size > 0

\* Position.calculate_pnl
CalculatePnl(p) ==
    IF p.size = 0 THEN 0
    ELSE IF p.side = "LONG"
         THEN (p.current_price - p.entry_price) * p.size
         ELSE (p.entry_price - p.current_price) * p.size

\* Position.calculate_pnl_percentage (size > 0 here, so no division by zero)
CalculatePnlPercentage(p) ==
    IF p.entry_price = 0 THEN 0
    ELSE (CalculatePnl(p) * 100) \div (p.entry_price * p.size)

TpCandidates(levels, pnl_pct) == SelectSeq(levels, LAMBDA lv : pnl_pct >= lv.tp)
SlCandidates(levels, pnl_pct) == SelectSeq(levels, LAMBDA lv : pnl_pct <= lv.sl)

\* Mutant: the candidates are not sorted, the first in list order is taken.
FirstSlInListOrder(cands) == cands[1]

\* Mutant: the candidates are not sorted, the first in list order is taken.
FirstTpInListOrder(cands) == cands[1]

\* sorted(cands, key=lambda x: x["step"])[0]: the sort is stable, so the
\* first element in list order among those with the smallest step.
FirstBySmallestStep(cands) ==
    LET i == CHOOSE i \in 1..Len(cands) :
                 /\ \A k \in 1..Len(cands) : cands[i].step <= cands[k].step
                 /\ \A k \in 1..(i - 1) : cands[k].step > cands[i].step
    IN cands[i]

\* sorted(cands, key=lambda x: x["step"], reverse=True)[0]: the first element
\* in list order among those with the largest step.
FirstByLargestStep(cands) ==
    LET i == CHOOSE i \in 1..Len(cands) :
                 /\ \A k \in 1..Len(cands) : cands[i].step >= cands[k].step
                 /\ \A k \in 1..(i - 1) : cands[k].step < cands[i].step
    IN cands[i]

\* ExitCondition._create_exit_signal with the PCS metadata
PCSSignal(p, chosen, reason, confidence, pnl_pct) ==
    [type |-> IF p.side = "LONG" THEN "SELL" ELSE "BUY",
     confidence |-> confidence,
     pcs_step |-> chosen.step, pcs_tp |-> chosen.tp, pcs_sl |-> chosen.sl,
     reason |-> reason, pnl_pct |-> pnl_pct]

\* PCSSystemCondition.evaluate for a valid position; None is <<>>.
ChooseLevel(p, levels) ==
    LET pnl_pct == CalculatePnlPercentage(p)
        tps == TpCandidates(levels, pnl_pct)
        sls == SlCandidates(levels, pnl_pct)
    IN IF sls # <<>>
       THEN <<PCSSignal(p, FirstBySmallestStep(sls), "SL", 90, pnl_pct)>>
       ELSE IF tps # <<>>
            THEN <<PCSSignal(p, FirstByLargestStep(tps), "TP", 80, pnl_pct)>>
            ELSE <<>>

\* State after PCSSystemCondition.__init__ with the given parameters.
PCSConstructed(act, steps, raises) ==
    /\ active_steps = act
    /\ pcs_levels = LoadPcsLevelsFromConfig(steps, raises)
    /\ pcs_position = <<>>
    /\ pcs_called = FALSE
    /\ tp_candidates = <<>>
    /\ sl_candidates = <<>>
    /\ pcs_result = <<>>

PCSInit ==
    \E act \in SUBSET CfgStepNumbers \cup {DefaultActiveSteps} :
    \E steps \in SeqsUpTo(CfgEntries, MaxCfgSteps) :
    \E raises \in BOOLEAN :
        PCSConstructed(act, steps, raises)

\* A ladder configured with step 1 alone; it is left alone while the engine
\* or the ConditionManager is explored.
PCSIdle ==
    PCSConstructed({1}, <<[step |-> 1, enabled |-> TRUE, tp |-> <<>>, sl |-> <<>>]>>,
                   FALSE)

\* PCSSystemCondition.evaluate(market_data, position)
PCSEvaluate ==
    /\ \E pos \in PositionInputs :
         LET valid == pos # <<>> /\ ValidatePosition(pos[1])
             levels == GetActiveLevels(pcs_levels, active_steps)
             go == valid /\ levels # <<>>
         IN /\ pcs_position' = pos
            /\ tp_candidates' =
                   IF go THEN TpCandidates(levels, CalculatePnlPercentage(pos[1]))
                   ELSE <<>>
            /\ sl_candidates' =
                   IF go THEN SlCandidates(levels, CalculatePnlPercentage(pos[1]))
                   ELSE <<>>
            /\ pcs_result' = IF go THEN ChooseLevel(pos[1], levels) ELSE <<>>
    /\ pcs_called' = TRUE
    /\ UNCHANGED <<active_steps, pcs_levels, engineVars, cmVars, rmVars,
                   auxVars>>

PCSNext == PCSEvaluate

-----------------------------------------------------------------------------
(* RiskManager: state and interface *)

\* Bounds of the counters and of the clock.
MaxDailyTrades == 2
MaxDailyLoss == 6
MaxDay == 2
MaxActive == 2

\* Ids of the positions the callers report.
RMPositions == {"BTCUSDT", "ETHUSDT"}

\* Realized PnL of a closed position, in percent of the account balance.
PnlChoices == {-3, 0, 2}

\* position_limits of the configurations the model draws.
TradeCaps == {1, 2}
PositionCaps == {1, 2}

NoCall == [kind |-> "none", new_day |-> FALSE, trades_before |-> 0, loss_before |-> 0]

\* State after RiskManager.__init__ with the given position limits.
RMConstructed(tcap, pcap, d) ==
    /\ daily_max_trades = tcap
    /\ max_positions = pcap
    /\ daily_trades = 0
    /\ daily_loss = 0
    /\ last_reset_date = d
    /\ active_positions = <<>>
    /\ today = d
    /\ rm_call = NoCall
    /\ rm_result = "none"
    /\ rm_checks = <<>>

RMInit ==
    \E tcap \in TradeCaps : \E pcap \in PositionCaps : RMConstructed(tcap, pcap, 0)

\* A RiskManager that nobody calls, while another component is explored.
RMIdle == RMConstructed(1, 1, 0)

\* validate_entry_signal(signal)
RMValidateEntrySignal ==
    /\ LET v == ValidateEntrySignal(daily_trades, last_reset_date, today,
                                    daily_max_trades, active_positions, max_positions)
       IN /\ rm_result' = v.result
          /\ rm_checks' = v.checks
    /\ rm_call' = [kind |-> "validate", new_day |-> today > last_reset_date,
                   trades_before |-> daily_trades, loss_before |-> daily_loss]
    /\ daily_trades' = TradesAfterReset(daily_trades, last_reset_date, today)
    /\ daily_loss' = LossAfterReset(daily_loss, last_reset_date, today)
    /\ last_reset_date' = DateAfterReset(last_reset_date, today)
    /\ UNCHANGED <<daily_max_trades, max_positions, active_positions, today,
                   engineVars, cmVars, pcsVars,
                   auxVars>>

\* update_position_opened(position)
RMUpdatePositionOpened ==
    /\ daily_trades < MaxDailyTrades
    /\ Len(active_positions) < MaxActive
    /\ \E p \in RMPositions : active_positions' = Append(active_positions, p)
    /\ daily_trades' = daily_trades + 1
    /\ rm_call' = [NoCall EXCEPT !.kind = "opened"]
    /\ UNCHANGED <<daily_max_trades, max_positions, daily_loss, last_reset_date,
                   today, rm_result, rm_checks, engineVars, cmVars, pcsVars,
                   auxVars>>

\* list.remove(position): the first occurrence is removed.
RemoveFirst(s, p) ==
    IF \E i \in 1..Len(s) : s[i] = p
    THEN LET i == CHOOSE i \in 1..Len(s) :
                      s[i] = p /\ \A k \in 1..(i - 1) : s[k] # p
         IN SubSeq(s, 1, i - 1) \o SubSeq(s, i + 1, Len(s))
    ELSE s

\* update_position_closed(position, pnl)
RMUpdatePositionClosed ==
    /\ \E p \in RMPositions : \E pnl \in PnlChoices :
           /\ daily_loss + (IF pnl < 0 THEN -pnl ELSE 0) <= MaxDailyLoss
           /\ active_positions' = RemoveFirst(active_positions, p)
           /\ daily_loss' = daily_loss + (IF pnl < 0 THEN -pnl ELSE 0)
    /\ rm_call' = [NoCall EXCEPT !.kind = "closed"]
    /\ UNCHANGED <<daily_max_trades, max_positions, daily_trades, last_reset_date,
                   today, rm_result, rm_checks, engineVars, cmVars, pcsVars,
                   auxVars>>

\* reset_daily_counters()
RMResetDailyCounters ==
    /\ daily_trades' = 0
    /\ daily_loss' = 0
    /\ last_reset_date' = today
    /\ rm_call' = [NoCall EXCEPT !.kind = "reset"]
    /\ UNCHANGED <<daily_max_trades, max_positions, active_positions, today,
                   rm_result, rm_checks, engineVars, cmVars, pcsVars,
                   auxVars>>

\* The wall clock passes midnight.
AdvanceDate ==
    /\ today < MaxDay
    /\ today' = today + 1
    /\ UNCHANGED <<daily_max_trades, max_positions, daily_trades, daily_loss,
                   last_reset_date, active_positions, rm_call, rm_result,
                   rm_checks, engineVars, cmVars, pcsVars,
                   auxVars>>

RMNext ==
    \/ RMValidateEntrySignal
    \/ RMUpdatePositionOpened
    \/ RMUpdatePositionClosed
    \/ RMResetDailyCounters
    \/ AdvanceDate

-----------------------------------------------------------------------------
(* PCBreakevenCondition and PCTExitCondition: the exit rules with a state *)

\* params.get("long_ticks", 10) and params.get("short_ticks", 10); prices of
\* this rule are counted in ticks (self.tick_size).
LongTicks == 2
ShortTicks == 2

\* position.side: a PositionSide (core.models.Position) or the string that
\* the connectors put in PositionInfo.
SideValues == {"PositionSide.LONG", "PositionSide.SHORT", "LONG", "SHORT"}

\* The position argument of PCBreakevenCondition.evaluate: None or a position.
PCBSymbols == {"BTCUSDT", "ETHUSDT"}

PCBPositions ==
    {<<>>} \cup {<<[symbol |-> y, size |-> s, side |-> d]>> :
                     y \in PCBSymbols, s \in {0, 1}, d \in SideValues}

\* max(high_prices[-20:]) and min(low_prices[-20:]) of the market data.
PCBChannels == {[lower |-> 10, upper |-> 14], [lower |-> 11, upper |-> 13]}

\* market_data.current_price
PCBPrices == {8, 10, 12, 14, 16}

\* position.side == PositionSide.LONG or position.side == "BUY"
PCBIsLong(side) == side = "PositionSide.LONG"

\* position.side == PositionSide.SHORT or position.side == "SELL"
PCBIsShort(side) == side = "PositionSide.SHORT"

\* Step 1 of evaluate: the line is touched now.
PCBTouchesNow(touched, side, price, ch) ==
    /\ ~touched
    /\ \/ PCBIsLong(side) /\ price <= ch.lower
       \/ PCBIsShort(side) /\ price >= ch.upper

\* self.pc_touched and self.touch_price after step 1.
PCBTouched(touched, side, price, ch) ==
    touched \/ PCBTouchesNow(touched, side, price, ch)

PCBTouchPrice(touched, touch, side, price, ch) ==
    IF PCBTouchesNow(touched, side, price, ch)
    THEN IF PCBIsLong(side) THEN <<ch.lower>> ELSE <<ch.upper>>
    ELSE touch

\* The rule decides without a touch: it measures from the opposite line.
PCBFiresWithoutTouch(touched, touch, side, price, ch) ==
    \/ PCBIsLong(side) /\ ch.upper - price >= LongTicks
    \/ PCBIsShort(side) /\ price - ch.lower >= ShortTicks

\* Step 2 of evaluate: touched, and the price moved on by the configured
\* number of ticks from the touch price.
PCBFires(touched, touch, side, price, ch) ==
    LET t1 == PCBTouched(touched, side, price, ch)
        tp1 == PCBTouchPrice(touched, touch, side, price, ch)
    IN /\ t1 /\ tp1 # <<>>
       /\ \/ PCBIsLong(side) /\ tp1[1] - price >= LongTicks
          \/ PCBIsShort(side) /\ price - tp1[1] >= ShortTicks

\* PCBreakevenCondition.evaluate: what it returns ("None", or "dict" for
\* {"action": "close", ...}) and the state it leaves.
PCBreakevenEvaluate(touched, touch, pos, hist, price, ch) ==
    IF pos = <<>> \/ ~hist
    THEN [result |-> "None", touched |-> touched, touch |-> touch]
    ELSE IF PCBFires(touched, touch, pos[1].side, price, ch)
         THEN [result |-> "dict", touched |-> FALSE, touch |-> <<>>]
         ELSE [result |-> "None",
               touched |-> PCBTouched(touched, pos[1].side, price, ch),
               touch |-> PCBTouchPrice(touched, touch, pos[1].side, price, ch)]

\* _evaluate_exit_conditions with the value evaluate returned: None and
\* False are passed over; a Signal gets its metadata and is appended; any
\* other true value has no metadata, the AttributeError is caught and
\* logged, and nothing is appended.
EngineCollects(ret) == ret = "Signal"

PCBNoCall ==
    [kind |-> "none", position |-> <<>>, history |-> FALSE, price |-> 0,
     channel |-> [lower |-> 0, upper |-> 0], touched_before |-> FALSE,
     touch_before |-> <<>>, result |-> "None", collected |-> FALSE,
     armed_by |-> <<>>]

\* The position argument of the call that set the flag which stands after
\* step 1 of this call; <<>> when the flag is not set.
PCBArmedBy(pos, hist, price, ch) ==
    IF pos # <<>> /\ hist /\ PCBTouchesNow(pc_touched, pos[1].side, price, ch)
    THEN pos
    ELSE IF pc_touched THEN pcb_call.armed_by ELSE <<>>

PCBInit ==
    /\ pc_touched = FALSE
    /\ touch_price = <<>>
    /\ pcb_call = PCBNoCall

PCBCall ==
    /\ \E pos \in PCBPositions, hist \in BOOLEAN, price \in PCBPrices,
          ch \in PCBChannels :
           LET r == PCBreakevenEvaluate(pc_touched, touch_price, pos, hist, price, ch)
           IN /\ pc_touched' = r.touched
              /\ touch_price' = r.touch
              /\ pcb_call' = [kind |-> "evaluate", position |-> pos,
                              history |-> hist, price |-> price, channel |-> ch,
                              touched_before |-> pc_touched,
                              touch_before |-> touch_price,
                              result |-> r.result,
                              collected |-> EngineCollects(r.result),
                              armed_by |-> PCBArmedBy(pos, hist, price, ch)]
    /\ UNCHANGED <<engineVars, cmVars, pcsVars, rmVars, pctVars, rlVars, maVars,
                   extVars>>

\* self.config.get('trailing_offset', 2.0) and ('activation_profit', 2.0), in percent.
TrailingOffset == 2
ActivationProfit == 2

\* The position argument of PCTExitCondition.evaluate.
PCTEntryPrice == 100
PCTPositions ==
    {<<>>} \cup {<<[size |-> s, side |-> d, entry_price |-> PCTEntryPrice]>> :
                    s \in {0, 1}, d \in SideValues}

\* market_data.get_price_channel(period): None or the channel.
PCTChannels ==
    {<<>>, <<[lower |-> 95, upper |-> 105]>>, <<[lower |-> 92, upper |-> 108]>>}

PCTPrices == {96, 100, 103, 110}

\* PCTExitCondition.evaluate: what it returns ("True", "False", or "raise"
\* when a channel of the other side, still None, is compared) and the
\* state it leaves.  trailing_stop_price is kept times 100.
PCTExitEvaluate(act, hi, lo, stop, pos, chan, price) ==
    LET same == [result |-> "False", act |-> act, hi |-> hi, lo |-> lo, stop |-> stop]
        reset == [result |-> "True", act |-> FALSE, hi |-> <<>>, lo |-> <<>>,
                  stop |-> <<>>]
    IN IF pos = <<>> \/ pos[1].size = 0 THEN same
       ELSE IF chan = <<>> THEN same
       ELSE IF ~(pos[1].entry_price > 0) THEN same
       ELSE LET p == pos[1]
                ch == chan[1]
            IN IF p.side = "LONG"
               THEN LET activates == ~act /\ (price - p.entry_price) * 100
                                                 >= ActivationProfit * p.entry_price
                        act1 == act \/ activates
                        hi1 == IF activates THEN <<ch.upper>> ELSE hi
                        stop1 == IF activates
                                 THEN <<ch.upper * (100 - TrailingOffset)>> ELSE stop
                    IN IF ~act1
                       THEN same
                       ELSE IF hi1 = <<>>
                       THEN [same EXCEPT !.result = "raise"]
                       ELSE LET hi2 == IF ch.upper > hi1[1] THEN <<ch.upper>> ELSE hi1
                                stop2 == IF ch.upper > hi1[1]
                                         THEN <<ch.upper * (100 - TrailingOffset)>>
                                         ELSE stop1
                            IN IF price * 100 <= stop2[1]
                               THEN reset
                               ELSE [result |-> "False", act |-> TRUE, hi |-> hi2,
                                     lo |-> lo, stop |-> stop2]
               ELSE IF p.side = "SHORT"
               THEN LET activates == ~act /\ (p.entry_price - price) * 100
                                                 >= ActivationProfit * p.entry_price
                        act1 == act \/ activates
                        lo1 == IF activates THEN <<ch.lower>> ELSE lo
                        stop1 == IF activates
                                 THEN <<ch.lower * (100 + TrailingOffset)>> ELSE stop
                    IN IF ~act1
                       THEN same
                       ELSE IF lo1 = <<>>
                       THEN [same EXCEPT !.result = "raise"]
                       ELSE LET lo2 == IF ch.lower < lo1[1] THEN <<ch.lower>> ELSE lo1
                                stop2 == IF ch.lower < lo1[1]
                                         THEN <<ch.lower * (100 + TrailingOffset)>>
                                         ELSE stop1
                            IN IF price * 100 >= stop2[1]
                               THEN reset
                               ELSE [result |-> "False", act |-> TRUE, hi |-> hi,
                                     lo |-> lo2, stop |-> stop2]
               ELSE same

PCTNoCall == [kind |-> "none", position |-> <<>>, channel |-> <<>>, price |-> 0,
              result |-> "False", collected |-> FALSE]

PCTInit ==
    /\ is_activated = FALSE
    /\ highest_channel = <<>>
    /\ lowest_channel = <<>>
    /\ trailing_stop_price = <<>>
    /\ pct_call = PCTNoCall

PCTCall ==
    /\ \E pos \in PCTPositions, chan \in PCTChannels, price \in PCTPrices :
           LET r == PCTExitEvaluate(is_activated, highest_channel, lowest_channel,
                                    trailing_stop_price, pos, chan, price)
           IN /\ is_activated' = r.act
              /\ highest_channel' = r.hi
              /\ lowest_channel' = r.lo
              /\ trailing_stop_price' = r.stop
              /\ pct_call' = [kind |-> "evaluate", position |-> pos,
                              channel |-> chan, price |-> price,
                              result |-> r.result,
                              collected |-> EngineCollects(r.result)]
    /\ UNCHANGED <<engineVars, cmVars, pcsVars, rmVars, pcbVars, rlVars, maVars,
                   extVars>>

-----------------------------------------------------------------------------
(* BaseExchangeAPI._check_rate_limit and the _make_request of each client *)

\* Time runs in ticks; RateWindow ticks stand for the 60 seconds of the window.
MaxClock == 4
RateWindow == 2
\* max_calls_per_minute, scaled: 1200 in BaseExchangeAPI and Binance, 600 in Bybit.
DefaultMaxCalls == 2
BybitMaxCalls == 1
\* Requests sent in one run of the model.
MaxRequests == 4

RLClients == {"BaseExchangeAPI", "BinanceFuturesClient", "BybitFuturesClient"}

MaxCallsPerMinute(client) ==
    IF client = "BybitFuturesClient" THEN BybitMaxCalls ELSE DefaultMaxCalls

\* [call_time for call_time in self.rate_limit_calls if current_time - call_time < 60]
RecentCalls(calls, now) ==
    SelectSeq(calls, LAMBDA call_time : now - call_time < RateWindow)

CheckRateLimit(calls, now, max) ==
    LET kept == RecentCalls(calls, now)
    IN  IF Len(kept) >= max
        THEN [ok |-> FALSE, calls |-> kept]
        ELSE [ok |-> TRUE, calls |-> Append(kept, now)]

RECURSIVE IssuedBetween(_, _, _)
IssuedBetween(sent, from, to) ==
    IF from > to \/ from > MaxClock THEN 0
    ELSE sent[from] + IssuedBetween(sent, from + 1, to)

RequestSent(sent, now) == [sent EXCEPT ![now] = @ + 1]

RLNoCall == [result |-> "none", at |-> 0, counted_before |-> 0]

RLIdle ==
    /\ rl_client = "BaseExchangeAPI"
    /\ rl_clock = 0
    /\ rate_limit_calls = <<>>
    /\ issued = [t \in 0..MaxClock |-> 0]
    /\ rl_last = RLNoCall

RLInit ==
    /\ rl_client \in RLClients
    /\ rl_clock = 0
    /\ rate_limit_calls = <<>>
    /\ issued = [t \in 0..MaxClock |-> 0]
    /\ rl_last = RLNoCall

TimePasses ==
    /\ rl_clock < MaxClock
    /\ rl_clock' = rl_clock + 1
    /\ UNCHANGED <<rl_client, rate_limit_calls, issued, rl_last>>
    /\ UNCHANGED <<engineVars, cmVars, pcsVars, rmVars, pcbVars, pctVars, maVars,
                   extVars>>

\* BaseExchangeAPI._make_request, run by a client that inherits it: the call
\* is counted first and raises without a request when the cap is reached.
BaseMakeRequest ==
    /\ rl_client = "BaseExchangeAPI"
    /\ IssuedBetween(issued, 0, MaxClock) < MaxRequests
    /\ LET r == CheckRateLimit(rate_limit_calls, rl_clock,
                               MaxCallsPerMinute(rl_client))
       IN  /\ rate_limit_calls' = r.calls
           /\ issued' = IF r.ok THEN RequestSent(issued, rl_clock) ELSE issued
           /\ rl_last' = [result |-> IF r.ok THEN "sent" ELSE "rejected",
                          at |-> rl_clock,
                          counted_before |->
                              Len(RecentCalls(rate_limit_calls, rl_clock))]
    /\ UNCHANGED <<rl_client, rl_clock>>
    /\ UNCHANGED <<engineVars, cmVars, pcsVars, rmVars, pcbVars, pctVars, maVars,
                   extVars>>

\* BinanceFuturesClient._make_request replaces the inherited method: it
\* prepares the request and sends it.
BinanceMakeRequest ==
    /\ rl_client = "BinanceFuturesClient"
    /\ IssuedBetween(issued, 0, MaxClock) < MaxRequests
    /\ issued' = RequestSent(issued, rl_clock)
    /\ rl_last' = [result |-> "sent", at |-> rl_clock,
                   counted_before |-> Len(RecentCalls(rate_limit_calls, rl_clock))]
    /\ UNCHANGED <<rl_client, rl_clock, rate_limit_calls>>
    /\ UNCHANGED <<engineVars, cmVars, pcsVars, rmVars, pcbVars, pctVars, maVars,
                   extVars>>

\* BybitFuturesClient._make_request replaces the inherited method likewise.
BybitMakeRequest ==
    /\ rl_client = "BybitFuturesClient"
    /\ IssuedBetween(issued, 0, MaxClock) < MaxRequests
    /\ issued' = RequestSent(issued, rl_clock)
    /\ rl_last' = [result |-> "sent", at |-> rl_clock,
                   counted_before |-> Len(RecentCalls(rate_limit_calls, rl_clock))]
    /\ UNCHANGED <<rl_client, rl_clock, rate_limit_calls>>
    /\ UNCHANGED <<engineVars, cmVars, pcsVars, rmVars, pcbVars, pctVars, maVars,
                   extVars>>

RLNext ==
    \/ TimePasses
    \/ BaseMakeRequest
    \/ BinanceMakeRequest
    \/ BybitMakeRequest

-----------------------------------------------------------------------------
(* MACondition and MultiTimeframeMACondition: the moving-average entry rules *)

MaxCloses == 3
ClosePrices == {999, 1000, 1001, 1010, 1300}
\* The periods the settings accept start at 1; the short one may exceed the long one.
ShortPeriods == {1, 2, 3}
LongPeriods == {2, 3}
\* condition_type: the upward cross on closes, the downward cross on closes,
\* and any other text (the texts the entry tab offers are of this kind).
MAConditionTypes == {"UpCross", "DownCross", "Other"}

\* market_data: <<>> (None) or <<close_prices>>; a MarketData has at least one close.
MAMarketData ==
    {<<>>} \cup {<<c>> : c \in UNION {[1..n -> ClosePrices] : n \in 1..MaxCloses}}

RECURSIVE SeqSum(_)
SeqSum(s) == IF s = <<>> THEN 0 ELSE Head(s) + SeqSum(Tail(s))

\* close_prices[-period:] for period >= 1: the whole list when it is shorter.
LastCloses(closes, period) ==
    SubSeq(closes, IF Len(closes) > period THEN Len(closes) - period + 1 ELSE 1,
           Len(closes))

\* short_ma - long_ma and long_ma, both times short_period * long_period,
\* so that cross_ratio = MAGap / MABase * 100.
MAGap(closes, sp, lp) ==
    SeqSum(LastCloses(closes, sp)) * lp - SeqSum(LastCloses(closes, lp)) * sp

MABase(closes, sp, lp) == SeqSum(LastCloses(closes, lp)) * sp

Abs(x) == IF x < 0 THEN 0 - x ELSE x

\* Mutants: the data check without the long period, the cross without the
\* deadband.
MAAnyData(closes, lp) == Len(closes) >= 1

MACrossesUpNoDeadband(closes, sp, lp) == MAGap(closes, sp, lp) > 0

\* not (len(market_data.close_prices) < self.long_period)
MAEnoughData(closes, lp) == Len(closes) >= lp

\* short_ma > long_ma and cross_ratio > 0.1
MACrossesUp(closes, sp, lp) ==
    /\ MAGap(closes, sp, lp) > 0
    /\ 1000 * MAGap(closes, sp, lp) > MABase(closes, sp, lp)

\* short_ma < long_ma and cross_ratio < -0.1
MACrossesDown(closes, sp, lp) ==
    /\ MAGap(closes, sp, lp) < 0
    /\ 1000 * MAGap(closes, sp, lp) < 0 - MABase(closes, sp, lp)

\* min(abs(cross_ratio) / 10, 1.0), as the fraction <<numerator, denominator>>.
MAConfidence(closes, sp, lp) ==
    IF 10 * Abs(MAGap(closes, sp, lp)) >= MABase(closes, sp, lp)
    THEN <<1, 1>>
    ELSE <<10 * Abs(MAGap(closes, sp, lp)), MABase(closes, sp, lp)>>

MANoSignal == [signal |-> "None", confidence |-> <<>>]

MAEvaluate(md, sp, lp, type) ==
    IF md = <<>> THEN MANoSignal
    ELSE IF ~MAEnoughData(md[1], lp) THEN MANoSignal
    ELSE IF type = "UpCross" /\ MACrossesUp(md[1], sp, lp)
         THEN [signal |-> "BUY", confidence |-> MAConfidence(md[1], sp, lp)]
    ELSE IF type = "DownCross" /\ MACrossesDown(md[1], sp, lp)
         THEN [signal |-> "SELL", confidence |-> MAConfidence(md[1], sp, lp)]
    ELSE MANoSignal

\* self.confidence_threshold of an EntryCondition, in tenths.
ConfidenceThreshold == 7

\* min(percentage_diff / 1.0, 0.9) with percentage_diff = abs(gap) / long_ma * 100
MTFConfidence(closes, sp, lp) ==
    IF 1000 * Abs(MAGap(closes, sp, lp)) >= 9 * MABase(closes, sp, lp)
    THEN <<9, 10>>
    ELSE <<100 * Abs(MAGap(closes, sp, lp)), MABase(closes, sp, lp)>>

\* confidence >= self.confidence_threshold
MTFConfident(closes, sp, lp) ==
    LET c == MTFConfidence(closes, sp, lp)
    IN  10 * c[1] >= ConfidenceThreshold * c[2]

\* Every exception inside evaluate is caught and turned into None.
MultiTimeframeMAEvaluate(enabled, md, sp, lp) ==
    IF ~enabled \/ md = <<>> THEN MANoSignal
    ELSE IF Len(md[1]) < lp THEN MANoSignal
    ELSE IF Len(md[1]) < sp THEN MANoSignal
    ELSE IF MAGap(md[1], sp, lp) > 0 /\ MTFConfident(md[1], sp, lp)
         THEN [signal |-> "BUY", confidence |-> MTFConfidence(md[1], sp, lp)]
    ELSE IF MAGap(md[1], sp, lp) < 0 /\ MTFConfident(md[1], sp, lp)
         THEN [signal |-> "SELL", confidence |-> MTFConfidence(md[1], sp, lp)]
    ELSE MANoSignal

MANoCall ==
    [kind |-> "none", enabled |-> TRUE, short_period |-> 1, long_period |-> 1,
     condition_type |-> "Other", market_data |-> <<>>, evaluated |-> FALSE,
     signal |-> "None", confidence |-> <<>>]

MAIdle == ma_call = MANoCall

\* A condition object with its settings and the argument of the call to come.
MAInit ==
    \/ \E md \in MAMarketData, sp \in ShortPeriods, lp \in LongPeriods,
          type \in MAConditionTypes :
           ma_call = [kind |-> "MACondition", enabled |-> TRUE,
                      short_period |-> sp, long_period |-> lp,
                      condition_type |-> type, market_data |-> md,
                      evaluated |-> FALSE, signal |-> "None", confidence |-> <<>>]
    \/ \E md \in MAMarketData, sp \in ShortPeriods, lp \in LongPeriods,
          enabled \in BOOLEAN :
           ma_call = [kind |-> "MultiTimeframeMACondition", enabled |-> enabled,
                      short_period |-> sp, long_period |-> lp,
                      condition_type |-> "Other", market_data |-> md,
                      evaluated |-> FALSE, signal |-> "None", confidence |-> <<>>]

MAConditionCall ==
    /\ ma_call.kind = "MACondition"
    /\ ~ma_call.evaluated
    /\ LET r == MAEvaluate(ma_call.market_data, ma_call.short_period,
                           ma_call.long_period, ma_call.condition_type)
       IN  ma_call' = [ma_call EXCEPT !.evaluated = TRUE, !.signal = r.signal,
                                      !.confidence = r.confidence]
    /\ UNCHANGED <<engineVars, cmVars, pcsVars, rmVars, pcbVars, pctVars, rlVars,
                   extVars>>

MultiTimeframeMACall ==
    /\ ma_call.kind = "MultiTimeframeMACondition"
    /\ ~ma_call.evaluated
    /\ LET r == MultiTimeframeMAEvaluate(ma_call.enabled, ma_call.market_data,
                                         ma_call.short_period, ma_call.long_period)
       IN  ma_call' = [ma_call EXCEPT !.evaluated = TRUE, !.signal = r.signal,
                                      !.confidence = r.confidence]
    /\ UNCHANGED <<engineVars, cmVars, pcsVars, rmVars, pcbVars, pctVars, rlVars,
                   extVars>>

MANext == MAConditionCall \/ MultiTimeframeMACall

-----------------------------------------------------------------------------
(* Signal.__post_init__ and Position.__post_init__ (src/core/models.py) *)

\* type of a Signal: a member of SignalType, a string, or something else.
SignalTypeArgs == {"SignalType.BUY", "SignalType.SELL", "BUY", "SELL", "HOLD", "None"}
\* side of a Position, likewise.
PositionSideArgs == {"PositionSide.LONG", "LONG", "BOTH", "None"}
SymbolArgs == {"", "BTCUSDT"}
PriceArgs == {-1, 0, 1, 100}
\* confidence in hundredths
ConfidenceArgs == {-1, 0, 50, 100, 101}
SizeArgs == {-1, 0, 1}

IsEnumMember(x) ==
    x \in {"SignalType.BUY", "SignalType.SELL", "PositionSide.LONG", "PositionSide.SHORT"}
IsStr(x) == ~IsEnumMember(x) /\ x # "None"

\* Mutants: a Signal whose price is not checked, a Position whose size is not.
SignalPostInitNoPrice(type, symbol, price, confidence) ==
    IF ~IsEnumMember(type) /\ (~IsStr(type) \/ type \notin {"BUY", "SELL"})
    THEN "ValueError"
    ELSE IF symbol = "" THEN "ValueError"
    ELSE IF ~(0 <= confidence /\ confidence <= 100) THEN "ValueError"
    ELSE "constructed"

SignalPostInit(type, symbol, price, confidence) ==
    IF ~IsEnumMember(type) /\ (~IsStr(type) \/ type \notin {"BUY", "SELL"})
    THEN "ValueError"
    ELSE IF symbol = "" THEN "ValueError"
    ELSE IF price <= 0 THEN "ValueError"
    ELSE IF ~(0 <= confidence /\ confidence <= 100) THEN "ValueError"
    ELSE "constructed"

\* A side that is neither a member nor a string is left as it is.
PositionPostInit(side, size, entry_price, current_price) ==
    IF IsStr(side) /\ side \notin {"LONG", "SHORT"} THEN "ValueError"
    ELSE IF size < 0 THEN "ValueError"
    ELSE IF entry_price <= 0 THEN "ValueError"
    ELSE IF current_price <= 0 THEN "ValueError"
    ELSE "constructed"

ModelNoCall ==
    [class |-> "none", type |-> "None", symbol |-> "", price |-> 0, confidence |-> 0,
     size |-> 0, current_price |-> 0, outcome |-> "pending"]

ModelIdle == model_call = ModelNoCall

\* The arguments of a constructor call to come.
ModelInit ==
    \/ \E ty \in SignalTypeArgs, sym \in SymbolArgs, pr \in PriceArgs,
          cf \in ConfidenceArgs :
           model_call = [class |-> "Signal", type |-> ty, symbol |-> sym, price |-> pr,
                         confidence |-> cf, size |-> 0, current_price |-> 0,
                         outcome |-> "pending"]
    \/ \E sd \in PositionSideArgs, sz \in SizeArgs, ep \in PriceArgs, cp \in PriceArgs :
           model_call = [class |-> "Position", type |-> sd, symbol |-> "BTCUSDT",
                         price |-> ep, confidence |-> 0, size |-> sz,
                         current_price |-> cp, outcome |-> "pending"]

ConstructSignal ==
    /\ model_call.class = "Signal"
    /\ model_call.outcome = "pending"
    /\ model_call' = [model_call EXCEPT !.outcome =
           SignalPostInit(model_call.type, model_call.symbol, model_call.price,
                          model_call.confidence)]
    /\ UNCHANGED <<coreVars, obw, candle, tick, obexit, bus, loops>>

ConstructPosition ==
    /\ model_call.class = "Position"
    /\ model_call.outcome = "pending"
    /\ model_call' = [model_call EXCEPT !.outcome =
           PositionPostInit(model_call.type, model_call.size, model_call.price,
                            model_call.current_price)]
    /\ UNCHANGED <<coreVars, obw, candle, tick, obexit, bus, loops>>

ModelNext == ConstructSignal \/ ConstructPosition

-----------------------------------------------------------------------------
(* OrderbookWatchCondition (src/conditions/entry/orderbook_watch.py) *)

\* Prices are in ticks (tick_size is one unit).
OBWPrices == {97, 99, 100, 101, 103}
OBWCloses == {100, 101}
OBWDirections == {"up", "down", "both"}
TickThreshold == 2
MaxOBWCalls == 3

OBWIdle == obw = [kind |-> "none"]

\* A condition as __init__ leaves it, for each setting of the two options.
OBWInit ==
    \E imm \in BOOLEAN, dir \in OBWDirections :
        obw = [kind |-> "OrderbookWatchCondition", immediate_entry |-> imm,
               direction |-> dir, base_price |-> <<>>, tick_count |-> 0,
               last_price |-> <<>>, calls |-> 0, previous_price |-> <<>>,
               current_price |-> <<>>, signal |-> "None", confidence |-> 0]

\* max(0.4, min(tick_count / (tick_threshold * 2), 0.9)) >= confidence_threshold,
\* the threshold being 0.7.
OBWConfident(ticks) == 10 * ticks >= 2 * ConfidenceThreshold * TickThreshold

\* The same, in hundredths.
OBWTickConfidence(ticks) ==
    IF 10 * ticks >= 18 * TickThreshold THEN 90 ELSE (100 * ticks) \div (2 * TickThreshold)

\* _create_immediate_signal, given self.last_price as it is when it runs.
CreateImmediateSignal(direction, last, current) ==
    IF direction = "up" THEN "BUY"
    ELSE IF direction = "down" THEN "SELL"
    ELSE IF last # <<>> /\ current > last[1] THEN "BUY"
    ELSE IF last # <<>> /\ current < last[1] THEN "SELL"
    ELSE "None"

\* _evaluate_tick_signal
EvaluateTickSignal(immediate, direction, last, current, tick_change) ==
    IF immediate
    THEN LET s == CreateImmediateSignal(direction, last, current)
         IN  [signal |-> s, confidence |-> IF s = "None" THEN 0 ELSE 80]
    ELSE IF direction \in {"up", "both"} /\ tick_change >= TickThreshold
    THEN IF OBWConfident(tick_change)
         THEN [signal |-> "BUY", confidence |-> OBWTickConfidence(tick_change)]
         ELSE [signal |-> "None", confidence |-> 0]
    ELSE IF direction \in {"down", "both"} /\ tick_change <= 0 - TickThreshold
    THEN IF OBWConfident(0 - tick_change)
         THEN [signal |-> "SELL", confidence |-> OBWTickConfidence(0 - tick_change)]
         ELSE [signal |-> "None", confidence |-> 0]
    ELSE [signal |-> "None", confidence |-> 0]

\* evaluate: _update_base_price, then _calculate_tick_change, which stores
\* the current price in self.last_price, then _evaluate_tick_signal.
OBWEvaluate ==
    /\ obw.kind = "OrderbookWatchCondition"
    /\ obw.calls < MaxOBWCalls
    /\ \E close \in OBWCloses, price \in OBWPrices :
           LET tick_change == price - close
               last == <<price>>
               r == EvaluateTickSignal(obw.immediate_entry, obw.direction, last,
                                       price, tick_change)
           IN  obw' = [obw EXCEPT !.base_price = <<close>>,
                                  !.tick_count = tick_change,
                                  !.last_price = last,
                                  !.calls = @ + 1,
                                  !.previous_price = obw.current_price,
                                  !.current_price = <<price>>,
                                  !.signal = r.signal,
                                  !.confidence = r.confidence]
    /\ UNCHANGED <<coreVars, model_call, candle, tick, obexit, bus, loops>>
-----------------------------------------------------------------------------
(* CandleStateCondition (src/conditions/entry/candle_state.py) *)

CandleTypes == {"bullish", "bearish", "doji"}
\* body_percentage in hundredths of a percent: 1 percent and 3 percent.
CandleBodies == {100, 300}
\* self.consecutive_candles
ConsecutiveChoices == {1, 2, 3}
\* self.min_body_percentage (0.1 percent), in hundredths of a percent
MinBodyPercentage == 10
\* The longest streak the model tells apart.
MaxStreak == 3

CandleIdle == candle = [kind |-> "none"]

CandleInit ==
    \E n \in ConsecutiveChoices, bull \in {"none", "buy"}, bear \in {"none", "sell"} :
        candle = [kind |-> "CandleStateCondition", consecutive_candles |-> n,
                  bullish_signal |-> bull, bearish_signal |-> bear,
                  pattern_memory |-> <<>>, type |-> "none", body |-> 0,
                  streak |-> 0, signal |-> "None"]

\* _update_pattern_memory: append, then drop the oldest above max(2 * N, 5).
UpdatePatternMemory(memory, n, type) ==
    LET m == Append(memory, type)
        max_memory == IF 2 * n > 5 THEN 2 * n ELSE 5
    IN  IF Len(m) > max_memory THEN Tail(m) ELSE m

\* Mutant: the streak check looks at the length of the memory only.
CheckMemoryLength(memory, n, type) == n <= 1 \/ Len(memory) >= n

\* _check_consecutive_pattern
CheckConsecutivePattern(memory, n, type) ==
    IF n <= 1 THEN TRUE
    ELSE IF Len(memory) < n THEN FALSE
    ELSE \A i \in (Len(memory) - n + 1)..Len(memory) : memory[i] = type

RECURSIVE CountFromEnd(_, _, _)
CountFromEnd(memory, i, type) ==
    IF i = 0 \/ memory[i] # type THEN 0 ELSE 1 + CountFromEnd(memory, i - 1, type)

\* _count_consecutive_candles
CountConsecutiveCandles(memory, type) == CountFromEnd(memory, Len(memory), type)

\* _calculate_candle_confidence >= self.confidence_threshold: the sum of
\* min(body, 0.8) and min(0.1 * count, 0.2), times the strength
\* min(body / 2, 1.0), compared with 0.7.
CandleConfident(memory, type, body) ==
    LET base == IF body < 80 THEN body ELSE 80
        count == CountConsecutiveCandles(memory, type)
        bonus == IF 10 * count < 20 THEN 10 * count ELSE 20
        strength == IF body < MinBodyPercentage THEN 0
                    ELSE IF body < 200 THEN body ELSE 200
    IN  (base + bonus) * strength >= 10 * ConfidenceThreshold * 200

\* _evaluate_candle_signal on the memory that holds the current candle
EvaluateCandleSignal(memory, n, bull, bear, type, body) ==
    IF ~CheckConsecutivePattern(memory, n, type) THEN "None"
    ELSE IF type = "bullish" /\ bull # "none"
    THEN IF body >= MinBodyPercentage /\ CandleConfident(memory, type, body)
         THEN (IF bull = "buy" THEN "BUY" ELSE "SELL")
         ELSE "None"
    ELSE IF type = "bearish" /\ bear # "none"
    THEN IF body >= MinBodyPercentage /\ CandleConfident(memory, type, body)
         THEN (IF bear = "buy" THEN "BUY" ELSE "SELL")
         ELSE "None"
    ELSE "None"

\* evaluate: the current candle is classified, remembered, then judged.  The
\* field streak counts the evaluations in a row that saw the current type.
CandleEvaluate ==
    /\ candle.kind = "CandleStateCondition"
    /\ \E type \in CandleTypes, b \in CandleBodies :
           LET body == IF type = "doji" THEN 0 ELSE b
               memory == UpdatePatternMemory(candle.pattern_memory,
                                             candle.consecutive_candles, type)
               run == IF type = candle.type THEN candle.streak + 1 ELSE 1
           IN  candle' = [candle EXCEPT
                   !.pattern_memory = memory,
                   !.type = type,
                   !.body = body,
                   !.streak = IF run > MaxStreak THEN MaxStreak ELSE run,
                   !.signal = EvaluateCandleSignal(memory, candle.consecutive_candles,
                                  candle.bullish_signal, candle.bearish_signal,
                                  type, body)]
    /\ UNCHANGED <<coreVars, model_call, obw, tick, obexit, bus, loops>>
-----------------------------------------------------------------------------
(* TickBasedCondition (src/conditions/entry/tick_based.py) *)

\* Prices in ticks (tick_size is one unit); time in seconds.
TickPrices == {100, 102, 104, 106}
\* self.up_ticks and self.down_ticks
UpTicks == 1
DownTicks == 1
\* self.max_pattern_time
MaxPatternTime == 2
MaxTickCalls == 5
\* The position argument: None, or a Position (or PositionInfo) object.
TickPositions == {"None", "Position"}

TickIdle == tick = [kind |-> "none"]

\* A condition as __init__ leaves it.  recent: tick_history[-1], <<>> while
\* the history is empty.  uses: how often the count of that tick went into
\* up_tick_count or down_tick_count.
TickInit ==
    \E type \in {"up_then_down", "down_then_up"} :
        tick = [kind |-> "TickBasedCondition", pattern_type |-> type,
                last_price |-> <<>>, recent |-> <<>>, uses |-> 0,
                pattern_state |-> "waiting", pattern_start_time |-> <<>>,
                up_tick_count |-> 0, down_tick_count |-> 0,
                now |-> 1, calls |-> 0, new_tick |-> FALSE,
                position |-> "None", signal |-> "None", raised |-> FALSE]

\* _update_tick_data
UpdateTickData(c, price, now) ==
    IF c.last_price = <<>>
    THEN [c EXCEPT !.last_price = <<price>>, !.new_tick = FALSE]
    ELSE IF Abs(price - c.last_price[1]) >= 1
    THEN [c EXCEPT !.recent = <<[direction |-> IF price > c.last_price[1]
                                               THEN "up" ELSE "down",
                                 count |-> Abs(price - c.last_price[1]),
                                 timestamp |-> now]>>,
                   !.uses = 0,
                   !.last_price = <<price>>,
                   !.new_tick = TRUE]
    ELSE [c EXCEPT !.new_tick = FALSE]

\* _reset_pattern_state
ResetPatternState(c) ==
    [c EXCEPT !.pattern_state = "waiting", !.pattern_start_time = <<>>,
              !.up_tick_count = 0, !.down_tick_count = 0]

\* _update_up_then_down_pattern
UpdateUpThenDownPattern(c, now) ==
    LET r == c.recent[1]
    IN  IF c.pattern_state = "waiting"
        THEN IF r.direction = "up"
             THEN [c EXCEPT !.pattern_state = "up_phase",
                            !.pattern_start_time = <<now>>,
                            !.up_tick_count = r.count,
                            !.down_tick_count = 0,
                            !.uses = @ + 1]
             ELSE c
        ELSE IF c.pattern_state = "up_phase"
        THEN IF r.direction = "up"
             THEN [c EXCEPT !.up_tick_count = @ + r.count, !.uses = @ + 1]
             ELSE IF c.up_tick_count >= UpTicks
             THEN [c EXCEPT !.pattern_state = "down_phase",
                            !.down_tick_count = r.count, !.uses = @ + 1]
             ELSE ResetPatternState(c)
        ELSE IF c.pattern_state = "down_phase"
        THEN IF r.direction = "down"
             THEN [c EXCEPT !.down_tick_count = @ + r.count, !.uses = @ + 1,
                            !.pattern_state =
                                IF c.down_tick_count + r.count >= DownTicks
                                THEN "completed" ELSE @]
             ELSE ResetPatternState(c)
        ELSE c

\* _update_down_then_up_pattern
UpdateDownThenUpPattern(c, now) ==
    LET r == c.recent[1]
    IN  IF c.pattern_state = "waiting"
        THEN IF r.direction = "down"
             THEN [c EXCEPT !.pattern_state = "down_phase",
                            !.pattern_start_time = <<now>>,
                            !.down_tick_count = r.count,
                            !.up_tick_count = 0,
                            !.uses = @ + 1]
             ELSE c
        ELSE IF c.pattern_state = "down_phase"
        THEN IF r.direction = "down"
             THEN [c EXCEPT !.down_tick_count = @ + r.count, !.uses = @ + 1]
             ELSE IF c.down_tick_count >= DownTicks
             THEN [c EXCEPT !.pattern_state = "up_phase",
                            !.up_tick_count = r.count, !.uses = @ + 1]
             ELSE ResetPatternState(c)
        ELSE IF c.pattern_state = "up_phase"
        THEN IF r.direction = "up"
             THEN [c EXCEPT !.up_tick_count = @ + r.count, !.uses = @ + 1,
                            !.pattern_state =
                                IF c.up_tick_count + r.count >= UpTicks
                                THEN "completed" ELSE @]
             ELSE ResetPatternState(c)
        ELSE c

\* _update_pattern_state: the timeout, then the update with tick_history[-1],
\* whether or not this evaluation recorded it.
UpdatePatternState(c, now) ==
    IF c.pattern_start_time # <<>> /\ now - c.pattern_start_time[1] > MaxPatternTime
    THEN ResetPatternState(c)
    ELSE IF c.recent = <<>> THEN c
    ELSE IF c.pattern_type = "up_then_down" THEN UpdateUpThenDownPattern(c, now)
    ELSE UpdateDownThenUpPattern(c, now)

Least(a, b) == IF a < b THEN a ELSE b

\* _calculate_pattern_confidence >= self.confidence_threshold: the product of
\* (min(up / up_ticks, 2) + min(down / down_ticks, 2)) / 4,
\* max(0.5, 1 - duration / max_pattern_time) and min((up + down) / 10, 1.2),
\* limited to 0.3 .. 1.0 and compared with 0.7.
PatternConfident(c) ==
    LET completion == Least(c.up_tick_count, 2 * UpTicks) * DownTicks
                          + Least(c.down_tick_count, 2 * DownTicks) * UpTicks
        duration == IF c.pattern_start_time = <<>> THEN 0
                    ELSE c.recent[1].timestamp - c.pattern_start_time[1]
        left == 2 * (MaxPatternTime - duration)
        time2 == IF left > MaxPatternTime THEN left ELSE MaxPatternTime
        ticks10 == Least(c.up_tick_count + c.down_tick_count, 12)
    IN  10 * completion * time2 * ticks10
            >= ConfidenceThreshold * 4 * UpTicks * DownTicks * 2 * MaxPatternTime * 10

\* _evaluate_tick_pattern.  The metadata of the signal reads
\* position.quantity, which neither Position nor PositionInfo has: the
\* AttributeError leaves the function before the signal and before the reset.
EvaluateTickPattern(c, position) ==
    IF c.pattern_state # "completed"
    THEN [c EXCEPT !.signal = "None", !.raised = FALSE]
    ELSE IF position = "None"
    THEN [ResetPatternState(c) EXCEPT !.signal = "None", !.raised = FALSE]
    ELSE IF PatternConfident(c)
    THEN [c EXCEPT !.signal = "None", !.raised = TRUE]
    ELSE [ResetPatternState(c) EXCEPT !.signal = "None", !.raised = FALSE]

\* evaluate
TickEvaluate ==
    /\ tick.kind = "TickBasedCondition"
    /\ tick.calls < MaxTickCalls
    /\ \E price \in TickPrices, dt \in {0, 1}, position \in TickPositions :
           LET now == tick.now + dt
               c0 == [tick EXCEPT !.now = now, !.calls = @ + 1,
                                  !.position = position]
           IN  tick' = EvaluateTickPattern(
                           UpdatePatternState(UpdateTickData(c0, price, now), now),
                           position)
    /\ UNCHANGED <<coreVars, model_call, obw, candle, obexit, bus, loops>>
-----------------------------------------------------------------------------
(* OrderbookExitCondition (src/conditions/exit/orderbook_exit.py) *)

\* self.config.get('imbalance_ratio', 2.0) and ('consecutive_signals', 3)
ImbalanceRatio == 2
ConsecutiveSignals == 3
MaxOBExitCalls == 5
\* _calculate_volume of the bids and of the asks
OBVolumes == {0, 1, 2}
\* The position argument: None, or a position with its size and side
\* (a string in PositionInfo, a PositionSide in core.models.Position).
OBExitPositions ==
    {<<>>} \cup {<<[size |-> s, side |-> d]>> :
                     s \in {0, 1}, d \in {"LONG", "SHORT", "PositionSide.LONG"}}
\* getattr(market_data, 'orderbook', None): <<>> for none, else the volumes.
OBOrderbooks == {<<>>} \cup {<<[bid |-> b, ask |-> a]>> : b, a \in OBVolumes}

OBExitIdle == obexit = [kind |-> "none"]

\* A condition as __init__ leaves it.  pressed: how many of the latest
\* evaluations that compared the ratio met the threshold in a row.
OBExitInit ==
    obexit = [kind |-> "OrderbookExitCondition", signal_count |-> 0,
              last_imbalance |-> <<0, 1>>, calls |-> 0, pressed |-> 0,
              compared |-> FALSE, met |-> FALSE, result |-> "False",
              position |-> <<>>, orderbook |-> <<>>]

\* imbalance >= self.imbalance_ratio, with imbalance = ask / bid for LONG and
\* bid / ask for SHORT.
OBImbalance(side, book) ==
    IF side = "LONG" THEN <<book.ask, book.bid>> ELSE <<book.bid, book.ask>>

OBPressure(side, book) ==
    OBImbalance(side, book)[1] >= ImbalanceRatio * OBImbalance(side, book)[2]

\* The branch of evaluate for a side it knows: count up and fire at
\* consecutive_signals (with _reset), or count down by one.
OBExitAfterPressure(c, side, book) ==
    IF OBPressure(side, book)
    THEN IF c.signal_count + 1 >= ConsecutiveSignals
         THEN [c EXCEPT !.signal_count = 0, !.last_imbalance = <<0, 1>>,
                        !.result = "True"]
         ELSE [c EXCEPT !.signal_count = @ + 1,
                        !.last_imbalance = OBImbalance(side, book),
                        !.result = "False"]
    ELSE [c EXCEPT !.signal_count = IF @ > 0 THEN @ - 1 ELSE @,
                   !.last_imbalance = OBImbalance(side, book),
                   !.result = "False"]

\* evaluate.  For a side that is neither "LONG" nor "SHORT" the assignment
\* self.last_imbalance = imbalance reads an unbound local: UnboundLocalError.
OBExitEvaluate ==
    /\ obexit.kind = "OrderbookExitCondition"
    /\ obexit.calls < MaxOBExitCalls
    /\ \E pos \in OBExitPositions, ob \in OBOrderbooks :
           LET c == [obexit EXCEPT !.calls = @ + 1, !.compared = FALSE,
                                   !.met = FALSE, !.position = pos,
                                   !.orderbook = ob]
           IN  IF \/ pos = <<>> \/ pos[1].size = 0
                  \/ ob = <<>> \/ ob[1].bid = 0 \/ ob[1].ask = 0
               THEN obexit' = [c EXCEPT !.result = "False"]
               ELSE IF pos[1].side \notin {"LONG", "SHORT"}
               THEN obexit' = [c EXCEPT !.result = "UnboundLocalError"]
               ELSE obexit' =
                        [OBExitAfterPressure(c, pos[1].side, ob[1]) EXCEPT
                             !.compared = TRUE,
                             !.met = OBPressure(pos[1].side, ob[1]),
                             !.pressed = IF OBPressure(pos[1].side, ob[1])
                                         THEN @ + 1 ELSE 0]
    /\ UNCHANGED <<coreVars, model_call, obw, candle, tick, bus, loops>>
-----------------------------------------------------------------------------
(* EventBus (src/core/event_system.py) *)

MaxEvents == 2
BusEvents == 1..MaxEvents
\* self.handlers[event.type], in the order of subscription.
BusHandlers == <<"h1", "h2">>

BusIdle == bus = [kind |-> "none"]

\* The bus as __init__ leaves it, with two handlers subscribed to the type
\* of the events.  thread: "none", "alive" or "dead"; loop: where _loop
\* stands; publisher and current: a publish call between queue.put and the
\* test of the thread; accepted: the events published while _stop was not
\* set; handled[h][e]: how often h.handle was called with event e.
BusInit ==
    bus = [kind |-> "EventBus", stop |-> FALSE, thread |-> "none",
           loop |-> "test", queue |-> <<>>, publisher |-> "idle",
           current |-> 0, next |-> 1, accepted |-> {},
           handled |-> [h \in {"h1", "h2"} |-> [ev \in BusEvents |-> 0]]]

\* for h in self.handlers.get(event.type, []): h.handle(event), inside one
\* try: a handler that raises ends the loop over the handlers.
BusHandle(handled, ev, raises) ==
    [h \in {"h1", "h2"} |->
        IF h = "h1" \/ ~raises
        THEN [handled[h] EXCEPT ![ev] = @ + 1]
        ELSE handled[h]]

\* publish, up to queue.put
BusPublish ==
    /\ bus.kind = "EventBus"
    /\ bus.publisher = "idle"
    /\ bus.next <= MaxEvents
    /\ bus' = IF bus.stop
              THEN [bus EXCEPT !.next = @ + 1]
              ELSE [bus EXCEPT !.next = @ + 1,
                               !.queue = Append(@, bus.next),
                               !.accepted = @ \cup {bus.next},
                               !.publisher = "put",
                               !.current = bus.next]
    /\ UNCHANGED <<coreVars, model_call, obw, candle, tick, obexit, loops>>

\* publish, from the test of the thread: _process_event when no thread is
\* alive.
BusPublishSync ==
    /\ bus.kind = "EventBus"
    /\ bus.publisher = "put"
    /\ \E raises \in BOOLEAN :
           bus' = IF bus.thread # "alive"
                  THEN [bus EXCEPT !.publisher = "idle", !.current = 0,
                                   !.handled = BusHandle(@, bus.current, raises)]
                  ELSE [bus EXCEPT !.publisher = "idle", !.current = 0]
    /\ UNCHANGED <<coreVars, model_call, obw, candle, tick, obexit, loops>>

\* start
BusStart ==
    /\ bus.kind = "EventBus"
    /\ bus' = IF bus.thread = "alive"
              THEN bus
              ELSE [bus EXCEPT !.stop = FALSE, !.thread = "alive",
                               !.loop = "test"]
    /\ bus' # bus
    /\ UNCHANGED <<coreVars, model_call, obw, candle, tick, obexit, loops>>

\* stop
BusStop ==
    /\ bus.kind = "EventBus"
    /\ ~bus.stop
    /\ bus' = [bus EXCEPT !.stop = TRUE]
    /\ UNCHANGED <<coreVars, model_call, obw, candle, tick, obexit, loops>>

\* _loop: while not self._stop.is_set()
BusLoopTest ==
    /\ bus.kind = "EventBus"
    /\ bus.thread = "alive"
    /\ bus.loop = "test"
    /\ bus' = IF bus.stop
              THEN [bus EXCEPT !.thread = "dead"]
              ELSE [bus EXCEPT !.loop = "get"]
    /\ UNCHANGED <<coreVars, model_call, obw, candle, tick, obexit, loops>>

\* _loop: queue.get(timeout=0.5) and the handlers, or Empty.
BusLoopGet ==
    /\ bus.kind = "EventBus"
    /\ bus.thread = "alive"
    /\ bus.loop = "get"
    /\ \E raises \in BOOLEAN :
           bus' = IF bus.queue = <<>>
                  THEN [bus EXCEPT !.loop = "test"]
                  ELSE [bus EXCEPT !.loop = "test", !.queue = Tail(@),
                                   !.handled = BusHandle(@, Head(bus.queue), raises)]
    /\ UNCHANGED <<coreVars, model_call, obw, candle, tick, obexit, loops>>

BusNext ==
    \/ BusPublish
    \/ BusPublishSync
    \/ BusStart
    \/ BusStop
    \/ BusLoopTest
    \/ BusLoopGet
-----------------------------------------------------------------------------
(* TradingEngine.start, start_sync, stop and the loops they leave running *)

\* Loops started on one engine in one run of the model.
MaxLoops == 3

\* An engine as __init__ leaves it: not running, no loop, no trading_task.
\* instances: one entry per _trading_loop started, with what runs it (a
\* task of start, a thread of start_sync), where it is ("wait": before the
\* test of `while self.is_running`, "tick": in _run_trading_cycle, "ended")
\* and whether a cancellation is pending.  trading_task: 0 (None) or the
\* index of the task that self.trading_task refers to.
LoopsIdle == loops = [is_running |-> FALSE, instances |-> <<>>, trading_task |-> 0]

TaskInTick ==
    \E i \in DOMAIN loops.instances :
        loops.instances[i].kind = "task" /\ loops.instances[i].at = "tick"

\* start(): sets the flag and creates a task, whatever ran before.  It is a
\* coroutine of the event loop, which runs it between the steps of its tasks.
LoopsStart ==
    /\ Len(loops.instances) < MaxLoops
    /\ ~TaskInTick
    /\ loops' = [is_running |-> TRUE,
                 instances |-> Append(loops.instances,
                     [kind |-> "task", at |-> "wait", cancelled |-> FALSE]),
                 trading_task |-> Len(loops.instances) + 1]
    /\ UNCHANGED <<coreVars, model_call, obw, candle, tick, obexit, bus>>

\* start_sync(): sets the flag and starts a thread, whatever ran before.
LoopsStartSync ==
    /\ Len(loops.instances) < MaxLoops
    /\ loops' = [loops EXCEPT
           !.is_running = TRUE,
           !.instances = Append(@, [kind |-> "thread", at |-> "wait",
                                    cancelled |-> FALSE])]
    /\ UNCHANGED <<coreVars, model_call, obw, candle, tick, obexit, bus>>

\* stop(): clears the flag and cancels self.trading_task, if there is one:
\* a task that waits ends at once, a task in its cycle ends at its next await.
LoopsStop ==
    /\ loops' = [loops EXCEPT
           !.is_running = FALSE,
           !.instances = [i \in DOMAIN @ |->
               IF i = loops.trading_task /\ @[i].at = "wait"
               THEN [@[i] EXCEPT !.at = "ended"]
               ELSE IF i = loops.trading_task /\ @[i].at = "tick"
               THEN [@[i] EXCEPT !.cancelled = TRUE]
               ELSE @[i]]]
    /\ UNCHANGED <<coreVars, model_call, obw, candle, tick, obexit, bus>>

\* `while self.is_running:` after the start of the loop or after its sleep.
\* The tasks of one event loop run one at a time.
LoopTestsFlag ==
    /\ \E i \in DOMAIN loops.instances :
           /\ loops.instances[i].at = "wait"
           /\ loops.instances[i].kind = "task" => ~TaskInTick
           /\ loops' = [loops EXCEPT !.instances[i].at =
                            IF loops.is_running THEN "tick" ELSE "ended"]
    /\ UNCHANGED <<coreVars, model_call, obw, candle, tick, obexit, bus>>

\* The cycle is over and the loop sleeps; a cancelled task ends instead.
LoopTickEnds ==
    /\ \E i \in DOMAIN loops.instances :
           /\ loops.instances[i].at = "tick"
           /\ loops' = [loops EXCEPT !.instances[i].at =
                            IF loops.instances[i].cancelled THEN "ended" ELSE "wait"]
    /\ UNCHANGED <<coreVars, model_call, obw, candle, tick, obexit, bus>>

LoopsNext ==
    \/ LoopsStart
    \/ LoopsStartSync
    \/ LoopsStop
    \/ LoopTestsFlag
    \/ LoopTickEnds

ExtIdle ==
    ModelIdle /\ OBWIdle /\ CandleIdle /\ TickIdle /\ OBExitIdle /\ BusIdle /\ LoopsIdle

AuxIdle == PCBInit /\ PCTInit /\ RLIdle /\ MAIdle /\ ExtIdle

-----------------------------------------------------------------------------
(* Specification of the trading engine *)

Init == EngineInit /\ CMInit /\ PCSIdle /\ RMIdle /\ AuxIdle

Next ==
    \/ Start
    \/ StartSync
    \/ Stop
    \/ EnableTrading
    \/ DisableTrading
    \/ AddEntryCondition
    \/ AddExitCondition
    \/ SetRiskManager
    \/ SetCombinationMode
    \/ SetEntryConditionEnabled
    \/ SetExitConditionEnabled
    \/ UpdateExitConditions
    \/ UpdatePositions
    \/ SkipCycle
    \/ CollectMarketData
    \/ EvaluateEntry
    \/ EvaluateExit
    \/ DispatchSignals
    \/ ExecuteExitSignal
    \/ ExecuteEntrySignal
    \/ CycleDone

Spec == Init /\ [][Next]_vars

\* The loop runs in a task or thread of its own: a cycle that can take its
\* next step takes it, and the sleep between two cycles ends.
CycleFairness ==
    /\ WF_vars(CollectMarketData)
    /\ WF_vars(EvaluateEntry)
    /\ WF_vars(EvaluateExit)
    /\ WF_vars(DispatchSignals)
    /\ WF_vars(ExecuteExitSignal)
    /\ WF_vars(ExecuteEntrySignal)
    /\ WF_vars(CycleDone)

\* The loop of an engine whose conditions were registered before it was
\* started: the run control, the risk settings and the refresh of the ledger
\* go on while it runs.
ConfiguredConditions(max) == {[i \in 1..n |-> [enabled |-> TRUE]] : n \in 0..max}

InitLive ==
    /\ CMInit /\ PCSIdle /\ RMIdle /\ AuxIdle
    /\ is_running = FALSE
    /\ is_trading_enabled = FALSE
    /\ update_task = FALSE
    /\ combination_mode \in {"AND", "OR"}
    /\ entry_conditions \in ConfiguredConditions(MaxEntryConds)
    /\ exit_conditions \in ConfiguredConditions(MaxExitConds)
    /\ risk_manager = FALSE
    /\ positions = <<>>
    /\ market_data_cache = FALSE
    /\ pc = "idle"
    /\ entry_signals = <<>>
    /\ exit_signals = <<>>
    /\ exit_idx = 0
    /\ exec_exit = <<>>
    /\ exec_entry = <<>>
    /\ orders = <<>>
    /\ entry_results = <<>>
    /\ condition_signals = <<>>
    /\ combined = <<>>
    /\ signalled_before = {}
    /\ md_fresh = FALSE
    /\ exit_returned = 0
    /\ last_order = <<>>

NextLive ==
    \/ Start
    \/ StartSync
    \/ Stop
    \/ EnableTrading
    \/ DisableTrading
    \/ SetRiskManager
    \/ UpdatePositions
    \/ SkipCycle
    \/ CollectMarketData
    \/ EvaluateEntry
    \/ EvaluateExit
    \/ DispatchSignals
    \/ ExecuteExitSignal
    \/ ExecuteEntrySignal
    \/ CycleDone

SpecLive == InitLive /\ [][NextLive]_vars /\ CycleFairness

\* The ConditionManager on its own.
SpecCM == Init /\ [][CMNext]_vars

\* The PCS ladder on its own, over the drawn configurations.
InitPCS == EngineInit /\ CMInit /\ PCSInit /\ RMIdle /\ AuxIdle

SpecPCS == InitPCS /\ [][PCSNext]_vars

\* The exit rules that keep a state, each called on its own.
SpecPCB == Init /\ [][PCBCall]_vars

SpecPCT == Init /\ [][PCTCall]_vars

\* The engine and its rules at rest, for the objects specified on their own.
CoreIdle == EngineInit /\ CMInit /\ PCSIdle /\ RMIdle /\ PCBInit /\ PCTInit /\ RLIdle /\ MAIdle

\* The constructors of Signal and Position on drawn arguments.
InitModel ==
    CoreIdle /\ ModelInit /\ OBWIdle /\ CandleIdle /\ TickIdle /\ OBExitIdle
             /\ BusIdle /\ LoopsIdle

SpecModel == InitModel /\ [][ModelNext]_vars

\* An OrderbookWatchCondition evaluated on a few prices in a row.
InitOBW ==
    CoreIdle /\ ModelIdle /\ OBWInit /\ CandleIdle /\ TickIdle /\ OBExitIdle
             /\ BusIdle /\ LoopsIdle

SpecOBW == InitOBW /\ [][OBWEvaluate]_vars

\* A CandleStateCondition evaluated again and again.
InitCandle ==
    CoreIdle /\ ModelIdle /\ OBWIdle /\ CandleInit /\ TickIdle /\ OBExitIdle
             /\ BusIdle /\ LoopsIdle

SpecCandle == InitCandle /\ [][CandleEvaluate]_vars

\* The loops that start, start_sync and stop leave on one engine.
SpecLoops == Init /\ [][LoopsNext]_vars

\* The event bus with a publisher, start and stop calls and its thread.
InitBus ==
    CoreIdle /\ ModelIdle /\ OBWIdle /\ CandleIdle /\ TickIdle /\ OBExitIdle
             /\ BusInit /\ LoopsIdle

SpecBus == InitBus /\ [][BusNext]_vars

\* An OrderbookExitCondition evaluated a few times in a row.
InitOBExit ==
    CoreIdle /\ ModelIdle /\ OBWIdle /\ CandleIdle /\ TickIdle /\ OBExitInit
             /\ BusIdle /\ LoopsIdle

SpecOBExit == InitOBExit /\ [][OBExitEvaluate]_vars

\* A TickBasedCondition evaluated on a few prices in a row.
InitTick ==
    CoreIdle /\ ModelIdle /\ OBWIdle /\ CandleIdle /\ TickInit /\ OBExitIdle
             /\ BusIdle /\ LoopsIdle

SpecTick == InitTick /\ [][TickEvaluate]_vars

\* The moving-average rules, each called on drawn closes and periods.
InitMA ==
    EngineInit /\ CMInit /\ PCSIdle /\ RMIdle /\ PCBInit /\ PCTInit /\ RLIdle /\ MAInit
    /\ ExtIdle

SpecMA == InitMA /\ [][MANext]_vars

\* One exchange client of each class, sending requests as time passes.
InitRL ==
    EngineInit /\ CMInit /\ PCSIdle /\ RMIdle /\ PCBInit /\ PCTInit /\ RLInit /\ MAIdle
    /\ ExtIdle

SpecRL == InitRL /\ [][RLNext]_vars

\* The RiskManager on its own, over the drawn position limits.
InitRM == EngineInit /\ CMInit /\ PCSIdle /\ RMInit /\ AuxIdle

SpecRM == InitRM /\ [][RMNext]_vars

-----------------------------------------------------------------------------
(* Properties of the trading cycle *)

\* The state right after _evaluate_entry_conditions returned, in a cycle in
\* which it evaluated the registered conditions.
EntryEvaluated == pc = "exit" /\ exit_idx = 0 /\ entry_results # <<>>

\* Conditions whose evaluate returned a Signal in this cycle.
SignalledNow == {i \in 1..Len(entry_results) : entry_results[i].kind = "signal"}

ActiveEntry == {i \in 1..Len(entry_conditions) : entry_conditions[i].enabled}

ExitOrderOf(s) == [kind |-> "exit", signal |-> s]

\* C1: within one cycle, when an entry order is issued, the close order of
\* every exit signal of that cycle has already been issued.
C1_ExitOrdersBeforeEntryOrders ==
    \A k \in 1..Len(orders) :
        orders[k].kind = "entry" =>
            \A s \in Range(exit_signals) :
                \E m \in 1..(k - 1) : orders[m] = ExitOrderOf(s)

\* C2: when the execution step of a cycle is over, every exit signal that
\* exit evaluation produced in the cycle has had its close-position call,
\* whatever entry signals the cycle produced.
C2_EveryExitSignalAttempted ==
    (pc = "exec" /\ exec_exit = <<>> /\ exec_entry = <<>>) =>
        \A s \in Range(exit_signals) :
            \E m \in 1..Len(orders) : orders[m] = ExitOrderOf(s)

\* C3 (as stated): AND fires iff the number of per-condition signals equals
\* the number of active entry conditions; OR fires iff at least one active
\* condition returned a signal.
C3_FiresIffCountsEqual ==
    EntryEvaluated =>
        /\ combination_mode = "AND" =>
               (combined # <<>> <=>
                    Cardinality(SignalledNow) = Cardinality(ActiveEntry))
        /\ combination_mode = "OR" =>
               (combined # <<>> <=> Cardinality(SignalledNow) >= 1)

\* C3 (amended): AND fires iff at least one entry condition is active and
\* the number of per-condition signals equals the number of active entry
\* conditions; OR fires iff at least one active condition returned a signal.
C3_FiresIffAllOfAtLeastOne ==
    EntryEvaluated =>
        /\ combination_mode = "AND" =>
               (combined # <<>> <=>
                    /\ Cardinality(ActiveEntry) >= 1
                    /\ Cardinality(SignalledNow) = Cardinality(ActiveEntry))
        /\ combination_mode = "OR" =>
               (combined # <<>> <=> Cardinality(SignalledNow) >= 1)

\* AND fired in a cycle in which two active conditions both signalled.
C3_Witness ==
    /\ EntryEvaluated
    /\ combination_mode = "AND"
    /\ Cardinality(ActiveEntry) >= 2
    /\ combined # <<>>

\* C4: in OR mode, when at least one condition returned a signal, exactly
\* one signal goes on to risk validation: the per-condition signal with the
\* highest confidence.
C4_OrYieldsSingleBestSignal ==
    (EntryEvaluated /\ combination_mode = "OR" /\ SignalledNow # {}) =>
        /\ Len(combined) = 1
        /\ combined[1].source = MaxByConfidence(condition_signals).source
        /\ combined[1].confidence = MaxByConfidence(condition_signals).confidence

\* C5: in AND mode, when the combination fires, the confidence of the
\* resulting signal is the arithmetic mean of the agreeing confidences and
\* the signal is tagged as synthesized (combined = true).
C5_AndConfidenceIsMean ==
    (EntryEvaluated /\ combination_mode = "AND" /\ combined # <<>>) =>
        /\ combined[1].confidence * Len(condition_signals)
               = SumConfidence(condition_signals)
        /\ combined[1].combined

\* C6: AND fires in a cycle only if every active condition returned a signal
\* in that same cycle, whatever the conditions returned in earlier cycles.
C6_NoPartialAndMemory ==
    (EntryEvaluated /\ combination_mode = "AND" /\ combined # <<>>) =>
        \A i \in ActiveEntry : entry_results[i].kind = "signal"

\* Every active condition has signalled, but never all in one cycle: one of
\* them only in an earlier cycle, another one in this cycle; AND stays silent.
C6_Witness ==
    /\ EntryEvaluated
    /\ combination_mode = "AND"
    /\ ActiveEntry \subseteq (signalled_before \cup SignalledNow)
    /\ SignalledNow # {}
    /\ ActiveEntry \ SignalledNow # {}
    /\ combined = <<>>
    /\ entry_signals = <<>>

\* C7: exit evaluation produces at most one exit signal per position per
\* cycle (the first active exit condition that returns a signal decides).
C7_AtMostOneExitSignalPerPosition ==
    \A sym \in {exit_signals[k].position_id : k \in 1..Len(exit_signals)} :
        Cardinality({k \in 1..Len(exit_signals) :
                        exit_signals[k].position_id = sym}) <= 1

-----------------------------------------------------------------------------
(* Properties of the trading cycle: risk gate, cancellation, failures *)

\* An order was executed in this cycle; the last one is last_order[1].
OrderExecuted == last_order # <<>>

\* C13: when the engine executes an entry order that is filled, the call
\* made on the attached RiskManager is update_position_opened, and when it
\* executes a filled exit, the call is update_position_closed.
C13_CountersInSyncWithTrades ==
    (risk_manager /\ OrderExecuted /\ last_order[1].outcome = "filled") =>
        /\ last_order[1].kind = "entry" => rm_call.kind = "opened"
        /\ last_order[1].kind = "exit" => rm_call.kind = "closed"

\* C15: an entry evaluation in which the RiskManager was asked and did not
\* admit the candidate drops the candidate and hands over to exit
\* evaluation: no exception takes the cycle anywhere else.
C15_RejectionIsNotAnError ==
    [][(/\ pc = "entry" /\ pc' # "entry"
        /\ risk_manager
        /\ rm_call'.kind = "validate"
        /\ rm_result' # "true")
           => (pc' = "exit" /\ entry_signals' = <<>>)]_vars

\* C16: whatever the state of the RiskManager, every signal that an exit
\* condition returned for an open position in this cycle is among the
\* exit signals of the cycle: none is filtered.
C16_ExitSignalsNotRiskGated ==
    Len(exit_signals) = exit_returned

\* Exit signals were produced while the attached RiskManager admits no
\* entry (its daily trade cap is exhausted, or its validation fails).
C16_Witness ==
    /\ pc = "dispatch"
    /\ risk_manager
    /\ RMVerdict # "accept"
    /\ ~(daily_trades < daily_max_trades)
    /\ exit_signals # <<>>

\* C17: once the engine is stopped, no cycle begins and no order is placed.
C17_NoTickNoOrderAfterStop ==
    [][~is_running =>
           /\ Len(orders') <= Len(orders)
           /\ ~(pc = "idle" /\ pc' = "entry")]_vars

\* C18: in a cycle whose market-data collection did not reach the
\* exchange, no entry condition is evaluated, no exit signal is produced
\* and no order is placed.
C18_FailedCollectionSkipsTick ==
    (pc # "idle" /\ ~md_fresh) =>
        /\ entry_results = <<>>
        /\ exit_signals = <<>>
        /\ orders = <<>>

\* C20: an order that was not filled (rejected, expired, or the call
\* raised) is reported to the observers as a failed trade event, and it is
\* not queued for another attempt in the cycle.
C20_FailedOrderReportedNotRetried ==
    (OrderExecuted /\ last_order[1].outcome # "filled") =>
        /\ last_order[1].emitted = "FAILED"
        /\ last_order[1].kind = "entry" =>
               \A k \in 1..Len(exec_entry) : exec_entry[k] # last_order[1].signal
        /\ last_order[1].kind = "exit" =>
               \A k \in 1..Len(exec_exit) : exec_exit[k] # last_order[1].signal

\* C21: while a cycle is in progress, the position ledger and the condition
\* lists do not change, and the counters of the RiskManager change only in
\* the steps of the cycle itself.
C21_SingleWriterDuringTick ==
    [][pc # "idle" =>
           /\ UNCHANGED <<positions, entry_conditions, exit_conditions>>
           /\ pc' = pc =>
                  UNCHANGED <<daily_trades, daily_loss, active_positions>>]_vars

\* C23: the ledger holds at most one position for a symbol of the exchange.
C23_OnePositionPerSymbol ==
    \A i, j \in 1..Len(positions) : positions[i] = positions[j] => i = j

\* C22: while the engine runs, whichever way it was started, the loop that
\* refreshes the ledger from the exchange comes to run, unless the engine
\* is stopped first.
C22_LedgerRefreshedWhileRunning ==
    is_running ~> (update_task \/ ~is_running)

\* An exception was raised in the current cycle: collection did not
\* deliver data, a condition raised, risk validation raised (the cycle is
\* left at once), or the order call raised.
ExceptionInTick ==
    \/ pc = "entry" /\ ~md_fresh
    \/ pc = "exit" /\ \E i \in 1..Len(entry_results) : entry_results[i].kind = "raise"
    \/ rm_result = "raise" /\ pc \notin {"entry", "exit", "dispatch", "exec"}
    \/ OrderExecuted /\ last_order[1].outcome = "raise"

\* C19: after an exception inside a cycle the loop comes back to its sleep
\* between two cycles, and a loop that sleeps while the engine runs with
\* trading enabled begins another cycle unless it is stopped or trading is
\* disabled first.
C19_FailuresSkipAndContinue ==
    /\ ExceptionInTick ~> (pc = "idle")
    /\ (pc = "idle" /\ is_running /\ is_trading_enabled)
           ~> (pc = "entry" \/ ~is_running \/ ~is_trading_enabled)

\* Another cycle has begun after risk validation raised in an earlier one.
C19_Witness ==
    /\ is_running
    /\ pc = "entry"
    /\ rm_call.kind = "validate"
    /\ rm_result = "raise"

-----------------------------------------------------------------------------
(* Properties of the exit rules *)

\* The argument of the last call is no position, or a position of size 0.
NoOpenPosition(call) == call.position = <<>> \/ call.position[1].size = 0

\* C24: an exit rule evaluated against a missing position or a position of
\* size 0 does not decide to exit.
C24_NoExitWithoutOpenPosition ==
    /\ (pcb_call.kind = "evaluate" /\ NoOpenPosition(pcb_call))
           => pcb_call.result = "None"
    /\ (pct_call.kind = "evaluate" /\ NoOpenPosition(pct_call))
           => pct_call.result = "False"

\* C25: evaluate returns no decision (None; the False of the tick and
\* channel rules is taken as none) or a Signal, and when a rule decides to
\* exit the value it returns is a Signal that the engine collects as an
\* exit signal.
C25_ExitDecisionIsCollectedSignal ==
    /\ pcb_call.kind = "evaluate" =>
           /\ pcb_call.result \in {"None", "Signal"}
           /\ pcb_call.result # "None" => pcb_call.collected
    /\ pct_call.kind = "evaluate" =>
           /\ pct_call.result \in {"False", "Signal"}
           /\ pct_call.result # "False" => pct_call.collected

\* The price of the last call is at or beyond the line of the position's side.
LineTouchedInCall ==
    /\ pcb_call.position # <<>>
    /\ \/ /\ pcb_call.position[1].side = "PositionSide.LONG"
          /\ pcb_call.price <= pcb_call.channel.lower
       \/ /\ pcb_call.position[1].side = "PositionSide.SHORT"
          /\ pcb_call.price >= pcb_call.channel.upper

\* C26: PC-breakeven decides to exit only if the touched flag was set when
\* the call began or the line is touched in the call; a call that does not
\* fire leaves a set flag and its touch price as they were; a call that
\* fires clears both.
C26_BreakevenTwoPhase ==
    pcb_call.kind = "evaluate" =>
        /\ pcb_call.result # "None" =>
               /\ pcb_call.touched_before \/ LineTouchedInCall
               /\ ~pc_touched
               /\ touch_price = <<>>
        /\ (pcb_call.result = "None" /\ pcb_call.touched_before) =>
               /\ pc_touched
               /\ touch_price = pcb_call.touch_before

\* The rule fired in a call that found the flag set by an earlier call, at
\* a price that does not touch the line itself.
C26_Witness ==
    /\ pcb_call.kind = "evaluate"
    /\ pcb_call.result # "None"
    /\ pcb_call.touched_before
    /\ pcb_call.touch_before # <<>>
    /\ ~pc_touched

\* The touch that stands in the last call was recorded for the position of
\* that call: the same symbol and the same side.
ArmedBySamePosition ==
    /\ pcb_call.armed_by # <<>>
    /\ pcb_call.armed_by[1].symbol = pcb_call.position[1].symbol
    /\ pcb_call.armed_by[1].side = pcb_call.position[1].side

\* C38: a touch recorded in a call for one position never causes a decision
\* to exit for another symbol or the other side: when the rule decides to
\* exit on a touch recorded for a different position, it would decide the
\* same with no touch recorded.
C38_ArmedPerPosition ==
    (pcb_call.kind = "evaluate" /\ pcb_call.result # "None") =>
        \/ ArmedBySamePosition
        \/ PCBFires(FALSE, <<>>, pcb_call.position[1].side, pcb_call.price,
                    pcb_call.channel)

-----------------------------------------------------------------------------
(* Properties of the constructors *)

Constructed(class) == model_call.class = class /\ model_call.outcome = "constructed"
Refused(class) == model_call.class = class /\ model_call.outcome = "ValueError"

\* C31: a Signal whose confidence is outside [0, 1] or whose price is not
\* positive is refused, and so is a Position of negative size: a Signal
\* that exists has its confidence in [0, 1] and a positive price.
C31_ConstructorsValidate ==
    /\ (model_call.class = "Signal" /\ model_call.outcome # "pending") =>
           /\ (model_call.confidence < 0 \/ model_call.confidence > 100
                   \/ model_call.price <= 0) => Refused("Signal")
           /\ Constructed("Signal") =>
                  (0 <= model_call.confidence /\ model_call.confidence <= 100
                       /\ model_call.price > 0)
    /\ (model_call.class = "Position" /\ model_call.outcome # "pending") =>
           (model_call.size < 0 => Refused("Position"))

\* A Signal with a symbol, a type and a confidence in range, refused for
\* its price of 0.
C31_Witness ==
    /\ Refused("Signal")
    /\ model_call.type = "SignalType.BUY"
    /\ model_call.symbol = "BTCUSDT"
    /\ model_call.confidence = 50
    /\ model_call.price = 0

-----------------------------------------------------------------------------
(* Properties of the order-book watch *)

\* C32: with immediate entry and direction "both", an evaluation at a price
\* above that of the evaluation before it returns BUY, one at a price below
\* it returns SELL, one at the same price returns no signal.
C32_ImmediateFollowsMovement ==
    (/\ obw.kind = "OrderbookWatchCondition"
     /\ obw.immediate_entry
     /\ obw.direction = "both"
     /\ obw.previous_price # <<>>)
        => /\ obw.current_price[1] > obw.previous_price[1] => obw.signal = "BUY"
           /\ obw.current_price[1] < obw.previous_price[1] => obw.signal = "SELL"
           /\ obw.current_price[1] = obw.previous_price[1] => obw.signal = "None"

-----------------------------------------------------------------------------
(* Properties of the candle-state rule *)

\* C33: with a streak length N above 1, a signal is returned only when the
\* N candles classified last, the current one included, are of one type;
\* before N candles were classified there is no signal.
C33_StreakBeforeSignal ==
    (/\ candle.kind = "CandleStateCondition"
     /\ candle.consecutive_candles > 1
     /\ candle.signal # "None")
        => candle.streak >= candle.consecutive_candles

\* The third bullish candle in a row fires a rule that asks for three.
C33_Witness ==
    /\ candle.kind = "CandleStateCondition"
    /\ candle.consecutive_candles = 3
    /\ candle.streak = 3
    /\ Len(candle.pattern_memory) = 3
    /\ candle.type = "bullish"
    /\ candle.signal = "BUY"

-----------------------------------------------------------------------------
(* Properties of the run control *)

\* A cycle that starts while trading is disabled does nothing: no market
\* data is collected, no condition is evaluated, no order is placed.
DisabledTickHasNoEffect ==
    [][(pc = "idle" /\ ~is_trading_enabled) =>
           UNCHANGED <<pc, cycleVars, market_data_cache>>]_vars

LoopsInTick == {i \in DOMAIN loops.instances : loops.instances[i].at = "tick"}

\* C34: whatever the order of start, start_sync and stop, no two loops are
\* in a trading cycle of the engine at the same time.
C34_AtMostOneLoopTicks == Cardinality(LoopsInTick) <= 1

-----------------------------------------------------------------------------
(* Properties of the tick pattern *)

TickEvaluated == tick.kind = "TickBasedCondition" /\ tick'.calls = tick.calls + 1

\* C36: the count of a recorded tick goes into up_tick_count or
\* down_tick_count at most once, and an evaluation that recorded no tick
\* leaves the phase and both counts as they were.
C36_TickCountedOnce ==
    /\ [](tick.kind = "TickBasedCondition" => tick.uses <= 1)
    /\ [][(TickEvaluated /\ ~tick'.new_tick) =>
              /\ tick'.pattern_state = tick.pattern_state
              /\ tick'.up_tick_count = tick.up_tick_count
              /\ tick'.down_tick_count = tick.down_tick_count]_vars

FirstPhase == IF tick.pattern_type = "up_then_down" THEN "up_phase" ELSE "down_phase"
SecondPhase == IF tick.pattern_type = "up_then_down" THEN "down_phase" ELSE "up_phase"
FirstCountReached ==
    IF tick.pattern_type = "up_then_down"
    THEN tick.up_tick_count >= UpTicks
    ELSE tick.down_tick_count >= DownTicks

\* C37: an evaluation takes the pattern from waiting to the first phase,
\* from the first phase to the second when the first count reached its
\* target, from the second phase to completed, or back to waiting, or
\* leaves it; it returns a signal only with a position; and it never
\* leaves the pattern in completed.
C37_PatternStateMachine ==
    /\ [][TickEvaluated =>
              \/ tick'.pattern_state = tick.pattern_state
              \/ tick'.pattern_state = "waiting"
              \/ tick.pattern_state = "waiting" /\ tick'.pattern_state = FirstPhase
              \/ /\ tick.pattern_state = FirstPhase
                 /\ tick'.pattern_state = SecondPhase
                 /\ FirstCountReached
              \/ tick.pattern_state = SecondPhase /\ tick'.pattern_state = "completed"
              ]_vars
    /\ [](tick.kind = "TickBasedCondition" =>
              /\ tick.signal # "None" => tick.position # "None"
              /\ tick.pattern_state # "completed")

-----------------------------------------------------------------------------
(* Properties of the event bus *)

\* Event ev is no longer in the queue and its publish call has returned.
BusDone(ev) ==
    /\ bus.current # ev
    /\ \A i \in 1..Len(bus.queue) : bus.queue[i] # ev

\* C40: an event published while the bus was not stopped is never handed
\* to a handler twice, and once it has left the queue and its publish call
\* has returned, each handler has received it exactly once.
C40_DeliveredExactlyOnce ==
    bus.kind = "EventBus" =>
        \A ev \in bus.accepted : \A h \in {"h1", "h2"} :
            /\ bus.handled[h][ev] <= 1
            /\ BusDone(ev) => bus.handled[h][ev] = 1

-----------------------------------------------------------------------------
(* Properties of the order-book exit *)

\* C39: the order-book exit returns True only when the ratio met the
\* threshold in each of the last consecutive_signals evaluations that
\* compared it, and an evaluation below the threshold leaves the count at 0.
C39_FiresOnConsecutivePressure ==
    obexit.kind = "OrderbookExitCondition" =>
        /\ obexit.result = "True" => obexit.pressed >= ConsecutiveSignals
        /\ (obexit.compared /\ ~obexit.met) => obexit.signal_count = 0

-----------------------------------------------------------------------------
(* Properties of the moving-average rules *)

MACalled == ma_call.evaluated /\ ma_call.market_data # <<>>

\* C29: a moving-average rule called with fewer closes than its long period
\* returns None; it does not raise.
C29_TooFewClosesNoSignal ==
    (MACalled /\ Len(ma_call.market_data[1]) < ma_call.long_period)
        => ma_call.signal = "None"

\* Rising closes, enough for the short average and too few for the long one.
C29_Witness ==
    /\ ma_call.kind = "MACondition"
    /\ ma_call.condition_type = "UpCross"
    /\ ma_call.market_data = <<(<<1000, 1300>>)>>
    /\ ma_call.short_period = 1
    /\ ma_call.long_period = 3
    /\ ma_call.evaluated
    /\ ma_call.signal = "None"

\* The sum of the last n elements of s (of all of them when s is shorter).
RECURSIVE SumOfLast(_, _)
SumOfLast(s, n) ==
    IF n = 0 \/ s = <<>> THEN 0
    ELSE s[Len(s)] + SumOfLast(SubSeq(s, 1, Len(s) - 1), n - 1)

\* The averages of the last call as fractions over a common denominator:
\* short_ma = ShortMA / (sp * lp), long_ma = LongMA / (sp * lp).
ShortMA == SumOfLast(ma_call.market_data[1], ma_call.short_period) * ma_call.long_period
LongMA == SumOfLast(ma_call.market_data[1], ma_call.long_period) * ma_call.short_period

\* (short_ma - long_ma) / long_ma * 100 > 0.1, and its mirror image.
AboveDeadband == ShortMA > LongMA /\ 1000 * (ShortMA - LongMA) > LongMA
BelowDeadband == ShortMA < LongMA /\ 1000 * (LongMA - ShortMA) > LongMA

\* confidence = min(|cross_ratio| / 10, 1.0)
ConfidenceIsTenthOfRatio ==
    /\ Len(ma_call.confidence) = 2
    /\ IF 10 * Abs(ShortMA - LongMA) >= LongMA
       THEN ma_call.confidence[1] = ma_call.confidence[2]
       ELSE ma_call.confidence[1] * LongMA
                = ma_call.confidence[2] * 10 * Abs(ShortMA - LongMA)

-----------------------------------------------------------------------------
(* Properties of the exchange clients *)

\* C28: whatever the class of the client, no RateWindow consecutive ticks
\* see more than max_calls_per_minute requests sent, and a call rejected at
\* the cap sends nothing and is not added to the counted calls.
C28_RateLimitedEveryClient ==
    /\ \A from \in 0..MaxClock :
           IssuedBetween(issued, from, from + RateWindow - 1)
               <= MaxCallsPerMinute(rl_client)
    /\ rl_last.result = "rejected" =>
           /\ Len(rate_limit_calls) = rl_last.counted_before
           /\ rl_last.counted_before >= MaxCallsPerMinute(rl_client)

-----------------------------------------------------------------------------
(* Properties of the ConditionManager *)

CMSignalledNow ==
    {i \in 1..Len(cm_inputs) : cm_inputs[i].kind = "signal"}

CMActiveEntry ==
    {i \in 1..Len(cm_entry_conditions) : cm_entry_conditions[i].enabled}

\* ConditionManager, AND: the manager returns a signal iff at least one
\* condition is active and all active ones signalled; the result carries
\* the mean confidence and the synthesized tag.  OR: it returns the
\* highest-confidence signal iff at least one condition signalled.
CM_CombinerAsSpecified ==
    cm_call = "entry" =>
        /\ cm_combination_mode = "AND" =>
               /\ cm_result # <<>> <=>
                      /\ CMActiveEntry # {}
                      /\ CMSignalledNow = CMActiveEntry
               /\ cm_result # <<>> =>
                      /\ cm_result[1].combined
                      /\ cm_result[1].source = "AND_COMBINATION"
                      /\ \E n \in 1..Len(cm_inputs) :
                             /\ n = Cardinality(CMSignalledNow)
                             /\ cm_result[1].confidence * n
                                    = SumConfidence(
                                          SelectSeq(cm_inputs,
                                                    LAMBDA r : r.kind = "signal"))
        /\ cm_combination_mode = "OR" =>
               /\ cm_result # <<>> <=> CMSignalledNow # {}
               /\ cm_result # <<>> =>
                      /\ ~cm_result[1].combined
                      /\ \A i \in CMSignalledNow :
                             cm_inputs[i].confidence <= cm_result[1].confidence

\* ConditionManager, exit: the first active condition that returns a signal
\* decides, so the manager returns at most one exit signal per position.
CM_ExitFirstMatch ==
    cm_call = "exit" =>
        LET hits == {j \in 1..Len(cm_inputs) : cm_inputs[j] = "signal"}
        IN /\ cm_result # <<>> <=> hits # {}
           /\ cm_result # <<>> =>
                  /\ Len(cm_result) = 1
                  /\ \E j \in hits :
                         /\ cm_result[1].source = ConditionName(j)
                         /\ \A h \in hits : j <= h

-----------------------------------------------------------------------------
(* Properties of the RiskManager *)

\* The last call on the RiskManager was validate_entry_signal.
Validated == rm_call.kind = "validate"

\* The four checks of validate_entry_signal, in the stated order.
AllChecks == <<"daily_trades", "max_positions", "daily_loss", "position_size">>

\* C11: validate_entry_signal returns false when daily_trades equals
\* daily_max_trades on the day of the last reset, and returns true on the
\* first validation of a later day when the position cap permits (the
\* counters are zero again, so the trade and loss caps permit).
C11_RejectsAtCapAcceptsNextDay ==
    Validated =>
        /\ (~rm_call.new_day /\ rm_call.trades_before = daily_max_trades)
               => rm_result = "false"
        /\ (rm_call.new_day /\ Len(active_positions) < max_positions)
               => /\ daily_trades = 0
                  /\ rm_result = "true"

\* C12: validate_entry_signal returns a boolean; the checks it evaluates are
\* a prefix of the stated order; it returns true exactly when all four were
\* evaluated and passed, and false right after the first failing check.
C12_AlwaysBooleanShortCircuit ==
    Validated =>
        /\ rm_result \in {"true", "false"}
        /\ rm_checks = SubSeq(AllChecks, 1, Len(rm_checks))
        /\ rm_result = "true" => rm_checks = AllChecks
        /\ ~(daily_trades < daily_max_trades) => rm_checks = <<"daily_trades">>
        /\ (daily_trades < daily_max_trades
                /\ ~(Len(active_positions) < max_positions))
               => rm_checks = <<"daily_trades", "max_positions">>

\* C14: when the losses recorded through update_position_closed on the
\* current day have reached the daily loss cap, validate_entry_signal
\* returns false.
C14_LossCapRejects ==
    (Validated /\ ~rm_call.new_day /\ rm_call.loss_before >= DefaultDailyLimit)
        => rm_result = "false"

\* C27: validate_entry_signal leaves the positions of the RiskManager and
\* its limits as they were, and it leaves daily_trades and daily_loss as
\* they were unless the date has changed since the last reset, in which
\* case both are zero afterwards.
C27_ValidateLeavesCounters ==
    [][(rm_call'.kind = "validate" /\ today' = today) =>
           /\ active_positions' = active_positions
           /\ daily_max_trades' = daily_max_trades
           /\ max_positions' = max_positions
           /\ daily_trades' = IF today > last_reset_date THEN 0 ELSE daily_trades
           /\ daily_loss' = IF today > last_reset_date THEN 0 ELSE daily_loss]_vars

\* A validation on the day of the last reset found trades, losses and an
\* active position, and left them.
C27_Witness ==
    /\ Validated
    /\ ~rm_call.new_day
    /\ daily_trades > 0 /\ daily_trades = rm_call.trades_before
    /\ daily_loss > 0 /\ daily_loss = rm_call.loss_before
    /\ active_positions # <<>>

-----------------------------------------------------------------------------
(* Properties of the PCS ladder *)

\* evaluate was called with a position that passes validation.
PCSEvaluatedValid ==
    pcs_called /\ pcs_position # <<>> /\ pcs_position[1].size > 0

\* PnL percentage of the evaluated position.
PnlPct == CalculatePnlPercentage(pcs_position[1])

\* Indices of the levels marked active: enabled and among active_steps.
ActiveIdx ==
    {k \in 1..Len(pcs_levels) :
        pcs_levels[k].enabled /\ pcs_levels[k].step \in active_steps}

SlIdx == {k \in ActiveIdx : PnlPct <= pcs_levels[k].sl}
TpIdx == {k \in ActiveIdx : PnlPct >= pcs_levels[k].tp}

\* C8: if some active step has pnl_pct <= sl, the chosen step is the
\* SL-candidate with the smallest step index, at confidence 0.9 with reason
\* "SL", also when TP-candidates exist.
C8_StopLossSmallestStep ==
    (PCSEvaluatedValid /\ SlIdx # {}) =>
        /\ pcs_result # <<>>
        /\ pcs_result[1].reason = "SL"
        /\ pcs_result[1].confidence = 90
        /\ \E k \in SlIdx :
               /\ pcs_result[1].pcs_step = pcs_levels[k].step
               /\ pcs_result[1].pcs_sl = pcs_levels[k].sl
               /\ \A m \in SlIdx : pcs_levels[k].step <= pcs_levels[m].step

\* Stop-loss chosen among SL-candidates of different steps that are not in
\* step order in the list, while a TP-candidate exists as well.
C8_Witness ==
    /\ PCSEvaluatedValid
    /\ TpIdx # {}
    /\ \E k, m \in SlIdx : k < m /\ pcs_levels[k].step > pcs_levels[m].step
    /\ pcs_result # <<>>
    /\ pcs_result[1].reason = "SL"

\* C9: with no SL-candidate and some active step with pnl_pct >= tp, the
\* chosen step is the TP-candidate with the largest step index, at
\* confidence 0.8 with reason "TP"; with no candidate at all, no signal.
C9_TakeProfitLargestStep ==
    PCSEvaluatedValid =>
        /\ (SlIdx = {} /\ TpIdx # {}) =>
               /\ pcs_result # <<>>
               /\ pcs_result[1].reason = "TP"
               /\ pcs_result[1].confidence = 80
               /\ \E k \in TpIdx :
                      /\ pcs_result[1].pcs_step = pcs_levels[k].step
                      /\ pcs_result[1].pcs_tp = pcs_levels[k].tp
                      /\ \A m \in TpIdx : pcs_levels[k].step >= pcs_levels[m].step
        /\ (SlIdx = {} /\ TpIdx = {}) => pcs_result = <<>>

\* Take-profit chosen among TP-candidates of different steps that are not
\* in descending step order in the list.
C9_Witness ==
    /\ PCSEvaluatedValid
    /\ SlIdx = {}
    /\ \E k, m \in TpIdx : k < m /\ pcs_levels[k].step < pcs_levels[m].step
    /\ pcs_result # <<>>
    /\ pcs_result[1].reason = "TP"

\* C10: the chosen step is always a level marked active (enabled and among
\* active_steps), and every level marked active whose threshold is breached
\* is among the candidates.
C10_OnlyActiveStepsConsidered ==
    PCSEvaluatedValid =>
        /\ pcs_result # <<>> =>
               \E k \in ActiveIdx :
                   /\ pcs_result[1].pcs_step = pcs_levels[k].step
                   /\ pcs_result[1].pcs_tp = pcs_levels[k].tp
                   /\ pcs_result[1].pcs_sl = pcs_levels[k].sl
        /\ \A lv \in Range(tp_candidates) \cup Range(sl_candidates) :
               lv.enabled /\ lv.step \in active_steps
        /\ \A k \in TpIdx : pcs_levels[k] \in Range(tp_candidates)
        /\ \A k \in SlIdx : pcs_levels[k] \in Range(sl_candidates)

\* A level that is not marked active (disabled, or outside active_steps)
\* has its stop-loss breached and a smaller step than the level the ladder
\* exits on.
C10_Witness ==
    /\ PCSEvaluatedValid
    /\ pcs_result # <<>>
    /\ pcs_result[1].reason = "SL"
    /\ \E k \in (1..Len(pcs_levels)) \ ActiveIdx :
           /\ PnlPct <= pcs_levels[k].sl
           /\ pcs_levels[k].step < pcs_result[1].pcs_step

=============================================================================
